---------------------------- MODULE Spec2Model ----------------------------
(***************************************************************************)
(* Model of the spreadsheet-to-JSON transformer of lintstock-cli           *)
(* (src/scripts/spreadsheet-to-json.js, the parser scripts/prepare.js      *)
(* loads).  parseSpreadsheetBuffer is modelled as a state machine that     *)
(* reads a decoded workbook sheet by sheet and row by row; every loop      *)
(* iteration of the source is one action.                                  *)
(*                                                                         *)
(* JavaScript strings are sequences of one-character strings, so that      *)
(* normalisation, trimming, token stripping, parseInt and Number are       *)
(* computed character by character, as the source computes them.           *)
(* A JavaScript value (a cell, a local variable, a JSON field) is a record *)
(* [t, s, n]: t is the type tag, s the characters of a string, n the       *)
(* value of a number.                                                      *)
(***************************************************************************)
EXTENDS Integers, Sequences, FiniteSets, TLC

(***************************************************************************)
(* JavaScript values                                                       *)
(***************************************************************************)
Str(s) == [t |-> "str", s |-> s, n |-> 0]

Num(n) == [t |-> "num", s |-> <<>>, n |-> n]

Undef == [t |-> "undef", s |-> <<>>, n |-> 0]

Null == [t |-> "null", s |-> <<>>, n |-> 0]

NaN == [t |-> "nan", s |-> <<>>, n |-> 0]

\* The function Object, which every plain object inherits as `constructor`.
ObjectFunction == [t |-> "fn", s |-> <<"O","b","j","e","c","t">>, n |-> 0]

EmptyStr == Str(<<>>)

\* An empty slot of a sparse array (a cell the sheet does not have): reading
\* it gives undefined, Array.prototype.map skips it.
Hole == [t |-> "hole", s |-> <<>>, n |-> 0]

IsStr(v) == v.t = "str"

IsNum(v) == v.t = "num"

\* ToBoolean: undefined, null, NaN, 0 and '' are falsy.
Truthy(v) ==
  CASE v.t = "str" -> v.s # <<>>
    [] v.t = "num" -> v.n # 0
    [] v.t = "fn" -> TRUE
    [] OTHER -> FALSE

\* a || b
OrElse(a, b) == IF Truthy(a) THEN a ELSE b

(***************************************************************************)
(* Characters                                                              *)
(***************************************************************************)
UpperLetters ==
  <<"A","B","C","D","E","F","G","H","I","J","K","L","M",
    "N","O","P","Q","R","S","T","U","V","W","X","Y","Z">>

LowerLetters ==
  <<"a","b","c","d","e","f","g","h","i","j","k","l","m",
    "n","o","p","q","r","s","t","u","v","w","x","y","z">>

Digits == <<"0","1","2","3","4","5","6","7","8","9">>

Range(f) == {f[i] : i \in DOMAIN f}

IsUpper(c) == c \in Range(UpperLetters)

IsLower(c) == c \in Range(LowerLetters)

IsDigit(c) == c \in Range(Digits)

\* The class [a-zA-Z0-9_] of the token pattern.
IsTokenChar(c) == IsUpper(c) \/ IsLower(c) \/ IsDigit(c) \/ c = "_"

\* The white space and line terminators that String.prototype.trim, Number
\* and Number.parseInt strip.  A character that a string of this module
\* cannot hold is written as the name of its code point.
WhiteSpace ==
  { " ", "\t", "\n", "\r", "\f", "U+000B", "U+00A0", "U+1680", "U+2000",
    "U+2001", "U+2002", "U+2003", "U+2004", "U+2005", "U+2006", "U+2007",
    "U+2008", "U+2009", "U+200A", "U+2028", "U+2029", "U+202F", "U+205F",
    "U+3000", "U+FEFF" }

IsSpace(c) == c \in WhiteSpace

\* The small letter of an ASCII capital, any other character itself: how the
\* engine reads the digits of a radix above ten and the words of a date.
AsciiLower(c) ==
  IF IsUpper(c)
    THEN LowerLetters[CHOOSE i \in DOMAIN UpperLetters : UpperLetters[i] = c]
    ELSE c

\* The value of c as a digit of a radix up to 36; 36 when it is none.
RadixDigit(c) ==
  LET alnum == Digits \o LowerLetters
      l == AsciiLower(c)
  IN  IF l \in Range(alnum) THEN (CHOOSE i \in DOMAIN alnum : alnum[i] = l) - 1 ELSE 36

(***************************************************************************)
(* String helpers                                                          *)
(***************************************************************************)
RECURSIVE TrimStart(_)
TrimStart(s) ==
  IF s # <<>> /\ IsSpace(Head(s)) THEN TrimStart(Tail(s)) ELSE s

RECURSIVE TrimEnd(_)
TrimEnd(s) ==
  IF s # <<>> /\ IsSpace(s[Len(s)])
    THEN TrimEnd(SubSeq(s, 1, Len(s) - 1))
    ELSE s

\* String.prototype.trim
Trim(s) == TrimEnd(TrimStart(s))

\* String.prototype.includes
Includes(s, k) ==
  \E i \in 0..(Len(s) - Len(k)) : SubSeq(s, i + 1, i + Len(k)) = k

RECURSIVE NatToChars(_)
NatToChars(n) ==
  IF n < 10
    THEN <<Digits[n + 1]>>
    ELSE NatToChars(n \div 10) \o <<Digits[(n % 10) + 1]>>

\* String(value), and the value as a template literal prints it.
ToChars(v) ==
  CASE v.t = "str" -> v.s
    [] v.t = "num" -> IF v.n < 0 THEN <<"-">> \o NatToChars(-v.n) ELSE NatToChars(v.n)
    [] v.t = "null" -> <<"n","u","l","l">>
    [] v.t = "nan" -> <<"N","a","N">>
    [] v.t = "fn" ->
         <<"f","u","n","c","t","i","o","n"," ">> \o v.s
           \o <<"(",")"," ","{"," ","[","n","a","t","i","v","e"," ","c","o","d","e","]"," ","}">>
    [] OTHER -> <<"u","n","d","e","f","i","n","e","d">>

(***************************************************************************)
(* normalizeHeader, HEADER_MAP, mapHeader                                  *)
(***************************************************************************)
\* What .toLowerCase().replace(/[^a-z0-9]/g, '') leaves of the character c.
\* toLowerCase turns an ASCII capital into its small letter, the Kelvin sign
\* U+212A into k and the dotted capital U+0130 into i followed by the
\* combining dot U+0307; every other capital becomes a small letter outside
\* ASCII, and no other character becomes or yields one of [a-z0-9].  The
\* replace then keeps the characters of [a-z0-9] alone.
LowerAlnumOf(c) ==
  CASE IsUpper(c) -> <<AsciiLower(c)>>
    [] IsLower(c) \/ IsDigit(c) -> <<c>>
    [] c = "U+212A" -> <<"k">>
    [] c = "U+0130" -> <<"i">>
    [] OTHER -> <<>>

RECURSIVE KeepLowerAlnum(_)
KeepLowerAlnum(s) ==
  IF s = <<>>
    THEN <<>>
    ELSE LowerAlnumOf(Head(s)) \o KeepLowerAlnum(Tail(s))

\* String(header).toLowerCase().replace(/[^a-z0-9]/g, '')
normalizeHeader(header) == KeepLowerAlnum(ToChars(header))

F_client_name == <<"c","l","i","e","n","t","_","n","a","m","e">>

F_created_date == <<"c","r","e","a","t","e","d","_","d","a","t","e">>

F_question_text == <<"q","u","e","s","t","i","o","n","_","t","e","x","t">>

F_question_number == <<"q","u","e","s","t","i","o","n","_","n","u","m","b","e","r">>

F_sub_question_text == <<"s","u","b","_","q","u","e","s","t","i","o","n","_","t","e","x","t">>

F_category == <<"c","a","t","e","g","o","r","y">>

F_respondent == <<"r","e","s","p","o","n","d","e","n","t">>

F_position == <<"p","o","s","i","t","i","o","n">>

F_score == <<"s","c","o","r","e">>

F_comment == <<"c","o","m","m","e","n","t">>

F_skip_reason == <<"s","k","i","p","_","r","e","a","s","o","n">>

F_response == <<"r","e","s","p","o","n","s","e">>

\* The entries of the object literal, in source order.
RAW_HEADER_MAP ==
  << [k |-> <<"C","l","i","e","n","t"," ","N","a","m","e">>, v |-> F_client_name],
     [k |-> <<"C","r","e","a","t","e","d">>, v |-> F_created_date],
     [k |-> <<"Q","u","e","s","t","i","o","n"," ","T","e","x","t">>, v |-> F_question_text],
     [k |-> <<"Q","u","e","s","t","i","o","n"," ","#">>, v |-> F_question_number],
     [k |-> <<"Q","u","e","s","t","i","o","n"," ","N","u","m","b","e","r">>, v |-> F_question_number],
     [k |-> <<"Q"," ","N","u","m","b","e","r">>, v |-> F_question_number],
     [k |-> <<"Q"," ","N","o">>, v |-> F_question_number],
     [k |-> <<"Q","#">>, v |-> F_question_number],
     [k |-> <<"S","u","b","-","Q","u","e","s","t","i","o","n">>, v |-> F_sub_question_text],
     [k |-> <<"S","u","b"," ","Q","u","e","s","t","i","o","n">>, v |-> F_sub_question_text],
     [k |-> <<"c","a","t","e","g","o","r","y">>, v |-> F_category],
     [k |-> <<"R","e","s","p","o","n","d","e","n","t">>, v |-> F_respondent],
     [k |-> <<"P","o","s","i","t","i","o","n">>, v |-> F_position],
     [k |-> <<"R","e","s","p","o","n","s","e">>, v |-> F_score],
     [k |-> <<"C","o","m","m","e","n","t">>, v |-> F_comment],
     [k |-> <<"S","k","i","p"," ","R","e","a","s","o","n">>, v |-> F_skip_reason] >>

\* A JavaScript Map or plain object with string keys, as the sequence of its
\* entries in insertion order.
MapHas(m, key) == \E i \in DOMAIN m : m[i].k = key

MapIndex(m, key) == CHOOSE i \in DOMAIN m : m[i].k = key

\* Map.prototype.get and obj[key] of an own entry: undefined without one.
MapGet(m, key) == IF MapHas(m, key) THEN m[MapIndex(m, key)].v ELSE Undef

\* Map.prototype.set and obj[key] = value: an existing key keeps its place.
MapSet(m, key, val) ==
  IF MapHas(m, key)
    THEN [m EXCEPT ![MapIndex(m, key)] = [k |-> key, v |-> val]]
    ELSE Append(m, [k |-> key, v |-> val])

MapValues(m) == [i \in DOMAIN m |-> m[i].v]

\* a <= b as numbers, for canonical numerals a and b: by length, then digit
\* by digit (the value of a ten-digit numeral may not fit an integer of the
\* model).
NumeralLeq(a, b) ==
  \/ Len(a) < Len(b)
  \/ /\ Len(a) = Len(b)
     /\ \A i \in DOMAIN a :
          (\A j \in 1..(i - 1) : a[j] = b[j]) => RadixDigit(a[i]) <= RadixDigit(b[i])

\* The key is an array index, a canonical numeral up to 2^32 - 2: own keys
\* of this kind come first, in ascending numeric order, when an object is
\* enumerated.
IsArrayIndex(key) ==
  /\ key # <<>>
  /\ \A i \in DOMAIN key : IsDigit(key[i])
  /\ Len(key) = 1 \/ key[1] # "0"
  /\ NumeralLeq(key, <<"4","2","9","4","9","6","7","2","9","4">>)

\* Object.values / Object.entries order: the entries of a plain object with
\* the array-index keys first, the others in insertion order.
RECURSIVE IndexEntries(_)
IndexEntries(entries) ==
  IF entries = {}
    THEN <<>>
    ELSE LET least == CHOOSE e \in entries :
                        \A f \in entries : NumeralLeq(e.k, f.k)
         IN  <<least>> \o IndexEntries(entries \ {least})

OwnEntries(obj) ==
  IndexEntries({obj[i] : i \in {j \in DOMAIN obj : IsArrayIndex(obj[j].k)}})
    \o SelectSeq(obj, LAMBDA e : ~IsArrayIndex(e.k))

\* Object.fromEntries: the entries are set one after the other, a later
\* entry of a key replacing the value of an earlier one; the object
\* enumerates its keys as OwnEntries orders them.
FromEntries(entries) ==
  LET f[i \in 0..Len(entries)] ==
        IF i = 0 THEN <<>> ELSE MapSet(f[i - 1], entries[i].k, entries[i].v)
  IN  OwnEntries(f[Len(entries)])

\* Object.fromEntries(Object.entries(RAW_HEADER_MAP).map(([k, v]) => [normalizeHeader(k), v]))
HEADER_MAP ==
  LET entries == OwnEntries(RAW_HEADER_MAP)
  IN  FromEntries([i \in DOMAIN entries |->
                     [k |-> normalizeHeader(Str(entries[i].k)), v |-> entries[i].v]])

\* for (const key in HEADER_MAP): the first key of HEADER_MAP, in the order
\* the object enumerates them, that norm includes.
FirstIncluded(norm) ==
  LET hits == {i \in DOMAIN HEADER_MAP : Includes(norm, HEADER_MAP[i].k)}
  IN  IF hits = {}
        THEN Null
        ELSE Str(HEADER_MAP[CHOOSE i \in hits : \A j \in hits : i <= j].v)

\* The names of the properties of Object.prototype that a normalized header
\* (lower-case letters and digits) can spell.
InheritedNormKeys == { <<"c","o","n","s","t","r","u","c","t","o","r">> }

\* HEADER_MAP[norm] on the plain object: an own entry, else the property it
\* inherits from Object.prototype, else undefined.
HeaderMapLookup(norm) ==
  IF MapHas(HEADER_MAP, norm)
    THEN Str(MapGet(HEADER_MAP, norm))
    ELSE IF norm \in InheritedNormKeys THEN ObjectFunction ELSE Undef

mapHeader(header) ==
  LET norm == normalizeHeader(header)
  IN  IF Truthy(HeaderMapLookup(norm))
        THEN HeaderMapLookup(norm)
        ELSE FirstIncluded(norm)

(***************************************************************************)
(* Number(value), Number.parseInt(value)                                   *)
(***************************************************************************)
RECURSIVE RadixPrefixLen(_, _)
RadixPrefixLen(s, radix) ==
  IF s # <<>> /\ RadixDigit(Head(s)) < radix
    THEN 1 + RadixPrefixLen(Tail(s), radix)
    ELSE 0

RECURSIVE RadixValue(_, _)
RadixValue(s, radix) ==
  IF s = <<>>
    THEN 0
    ELSE radix * RadixValue(SubSeq(s, 1, Len(s) - 1), radix) + RadixDigit(s[Len(s)])

DropSign(s) == IF s # <<>> /\ Head(s) \in {"+", "-"} THEN Tail(s) ELSE s

\* StringNumericLiteral without the white space around it: a decimal literal
\* with an optional sign (Infinity, or digits, an optional fraction and an
\* optional exponent), or an unsigned literal 0x, 0o or 0b with digits of its
\* radix.
IsNumericLiteral(s) ==
  LET u == DropSign(s)
      a == RadixPrefixLen(u, 10)
      r1 == SubSeq(u, a + 1, Len(u))
      hasDot == r1 # <<>> /\ Head(r1) = "."
      r2 == IF hasDot THEN Tail(r1) ELSE r1
      b == IF hasDot THEN RadixPrefixLen(r2, 10) ELSE 0
      r3 == SubSeq(r2, b + 1, Len(r2))
      x == IF r3 = <<>> THEN <<>> ELSE DropSign(Tail(r3))
      radix == IF Len(s) < 3 \/ s[1] # "0"
                 THEN 0
                 ELSE CASE s[2] \in {"x", "X"} -> 16
                        [] s[2] \in {"o", "O"} -> 8
                        [] s[2] \in {"b", "B"} -> 2
                        [] OTHER -> 0
  IN  \/ u = <<"I","n","f","i","n","i","t","y">>
      \/ /\ a > 0 \/ (hasDot /\ b > 0)
         /\ \/ r3 = <<>>
            \/ /\ Head(r3) \in {"e", "E"}
               /\ x # <<>>
               /\ RadixPrefixLen(x, 10) = Len(x)
      \/ /\ radix # 0
         /\ RadixPrefixLen(SubSeq(s, 3, Len(s)), radix) = Len(s) - 2

\* Number.isNaN(Number(value)): ToNumber of undefined is NaN, of null and of a
\* string that is empty after trimming 0.
NumberIsNaN(v) ==
  CASE v.t = "num" -> FALSE
    [] v.t = "null" -> FALSE
    [] v.t = "str" -> Trim(v.s) # <<>> /\ ~IsNumericLiteral(Trim(v.s))
    [] OTHER -> TRUE

\* Number.parseInt(value) without radix: after the leading white space and
\* the sign of String(value), the hexadecimal digits that follow 0x or 0X, or
\* else the decimal digits; NaN when there are none.  (The numbers of the
\* model are integers, which parseInt returns unchanged.)
parseInt(v) ==
  LET s == TrimStart(ToChars(v))
      u == DropSign(s)
      hex == Len(u) >= 2 /\ u[1] = "0" /\ u[2] \in {"x", "X"}
      w == IF hex THEN SubSeq(u, 3, Len(u)) ELSE u
      radix == IF hex THEN 16 ELSE 10
      a == RadixPrefixLen(w, radix)
      m == RadixValue(SubSeq(w, 1, a), radix)
  IN  IF a = 0
        THEN NaN
        ELSE Num(IF s # <<>> /\ Head(s) = "-" THEN -m ELSE m)

(***************************************************************************)
(* formatDateToYMD                                                         *)
(***************************************************************************)
\* The time zone of the process: the minutes local time is ahead of UTC.
VARIABLE timeZone

\* The white space of the language without the line terminators: what ends
\* a word of a date string.
IsWhiteSpaceChar(c) == c \in WhiteSpace \ {"\n", "\r", "U+2028", "U+2029"}

\* The characters below 'A' in code-unit order: a word of a date string is a
\* run of characters that are not among them and are no white space.
BelowAlpha ==
  { "U+0000", "U+0001", "U+0002", "U+0003", "U+0004", "U+0005", "U+0006",
    "U+0007", "U+0008", "\t", "\n", "U+000B", "\f", "\r", "U+000E", "U+000F",
    "U+0010", "U+0011", "U+0012", "U+0013", "U+0014", "U+0015", "U+0016",
    "U+0017", "U+0018", "U+0019", "U+001A", "U+001B", "U+001C", "U+001D",
    "U+001E", "U+001F", " ", "!", "\"", "#", "$", "%", "&", "'", "(", ")",
    "*", "+", ",", "-", ".", "/", "0", "1", "2", "3", "4", "5", "6", "7",
    "8", "9", ":", ";", "<", "=", ">", "?", "@" }

\* A token of a date string: its kind, the character of a symbol, the value
\* of a number or of a keyword, and its length in characters.
DateToken(k, c, n, len) == [k |-> k, c |-> c, n |-> n, len |-> len]

\* The token of a word, from its first three characters in lower case and
\* its length: a month name (a longer word with the same three letters is
\* one too), am or pm, the name of a time zone with its offset in hours, the
\* separator T, or a word without meaning.
DateKeyword(word) ==
  LET n == Len(word)
      pre == [i \in 1..(IF n < 3 THEN n ELSE 3) |-> AsciiLower(word[i])]
      months ==
        << <<"j","a","n">>, <<"f","e","b">>, <<"m","a","r">>, <<"a","p","r">>,
           <<"m","a","y">>, <<"j","u","n">>, <<"j","u","l">>, <<"a","u","g">>,
           <<"s","e","p">>, <<"o","c","t">>, <<"n","o","v">>, <<"d","e","c">> >>
      zones ==
        << <<<<"u","t">>, 0>>, <<<<"u","t","c">>, 0>>, <<<<"z">>, 0>>,
           <<<<"g","m","t">>, 0>>, <<<<"c","d","t">>, -5>>,
           <<<<"c","s","t">>, -6>>, <<<<"e","d","t">>, -4>>,
           <<<<"e","s","t">>, -5>>, <<<<"m","d","t">>, -6>>,
           <<<<"m","s","t">>, -7>>, <<<<"p","d","t">>, -7>>,
           <<<<"p","s","t">>, -8>> >>
  IN  IF \E i \in DOMAIN months : months[i] = pre
        THEN DateToken("month", "", CHOOSE i \in DOMAIN months : months[i] = pre, n)
        ELSE IF n > 3
          THEN DateToken("word", "", 0, n)
          ELSE IF pre = <<"a","m">>
            THEN DateToken("ampm", "", 0, n)
            ELSE IF pre = <<"p","m">>
              THEN DateToken("ampm", "", 12, n)
              ELSE IF \E i \in DOMAIN zones : zones[i][1] = pre
                THEN DateToken("zone", "",
                               zones[CHOOSE i \in DOMAIN zones : zones[i][1] = pre][2], n)
                ELSE IF pre = <<"t">>
                  THEN DateToken("tsep", "", 0, n)
                  ELSE DateToken("word", "", 0, n)

\* The tokens of a date string up to its end or its first NUL character: a
\* run of digits is a number (its value is that of at most nine digits after
\* the leading zeros, its length counts every digit); ':', '-', '+', '.' and
\* ')' are symbols; a run of characters from 'A' upwards that are no white
\* space is a word, the line and paragraph separators U+2028 and U+2029
\* among its characters; a white-space character or line terminator outside a
\* word is a token of its own; '(' opens a comment that ends where the
\* parentheses balance; any other character is a token without meaning.
RECURSIVE DateTokens(_)
DateTokens(s) ==
  IF s = <<>> \/ Head(s) = "U+0000"
    THEN <<>>
    ELSE LET c == Head(s)
             From(i) == SubSeq(s, i, Len(s))
             digits == RadixPrefixLen(s, 10)
             zeros == RadixPrefixLen(s, 1)
             last == IF digits < zeros + 9 THEN digits ELSE zeros + 9
             word[i \in 1..(Len(s) + 1)] ==
               IF i <= Len(s) /\ s[i] \notin BelowAlpha /\ ~IsWhiteSpaceChar(s[i])
                 THEN 1 + word[i + 1]
                 ELSE 0
             paren[i \in 1..(Len(s) + 1), b \in 0..Len(s)] ==
               IF b = 0 \/ i > Len(s) \/ s[i] = "U+0000"
                 THEN i
                 ELSE paren[i + 1, IF s[i] = ")" THEN b - 1
                                   ELSE IF s[i] = "(" THEN b + 1 ELSE b]
         IN  IF IsDigit(c)
               THEN <<DateToken("number", "", RadixValue(SubSeq(s, zeros + 1, last), 10), digits)>>
                      \o DateTokens(From(digits + 1))
               ELSE IF c \in {":", "-", "+", ".", ")"}
                 THEN <<DateToken("symbol", c, 0, 1)>> \o DateTokens(Tail(s))
                 ELSE IF c \notin BelowAlpha /\ ~IsWhiteSpaceChar(c)
                   THEN <<DateKeyword(SubSeq(s, 1, word[1]))>>
                          \o DateTokens(From(word[1] + 1))
                   ELSE IF IsSpace(c)
                     THEN <<DateToken("space", "", 0, 1)>> \o DateTokens(Tail(s))
                     ELSE IF c = "("
                       THEN <<DateToken("unknown", "", 0, paren[2, 1] - 1)>>
                              \o DateTokens(From(paren[2, 1]))
                       ELSE <<DateToken("unknown", "", 0, 1)>> \o DateTokens(Tail(s))

\* The i-th token, the end of the input after the last one.
PeekToken(toks, i) == IF i <= Len(toks) THEN toks[i] ELSE DateToken("end", "", 0, 0)

\* The milliseconds of the digits after the point of the seconds: the first
\* three of them.
ReadMilliseconds(tok) ==
  LET len == IF tok.len > 9 THEN 9 ELSE tok.len
      factor[i \in 3..9] == IF i = 3 THEN 1 ELSE 10 * factor[i - 1]
  IN  CASE tok.len = 1 -> tok.n * 100
        [] tok.len = 2 -> tok.n * 10
        [] OTHER -> tok.n \div factor[len]

\* The parser's first pass, for the date-time format of the language: the
\* year (four digits, or a sign and six digits other than -000000), then -MM
\* and -DD, then T and the time HH:mm, HH:mm:ss or HH:mm:ss.s+ with the zone
\* Z, +HH:mm, -HH:mm, +HHmm or -HHmm.  The result holds what has been read:
\* the components of the day, the month a word names (0: none), those of
\* the time, the hours am or pm add (-1: none), the sign, hour and minute of
\* the zone (0 and -1: none), whether a number has been read, `at` the token
\* where the second pass takes over (`legacy`) and `iso` whether the string
\* is of the format to its end.  A string that departs from the format
\* before the T goes to the second pass with the components read so far; one
\* that departs from it after the T is no date.  A date without time is in
\* UTC, a time without zone is local.  First the date:
ParseES5Date(toks) ==
  LET P(i) == PeekToken(toks, i)
      Fixed(i, len) == P(i).k = "number" /\ P(i).len = len
      Sym(i, c) == P(i).k = "symbol" /\ P(i).c = c
      none == [ day |-> <<>>, named |-> 0, iso |-> FALSE, time |-> <<>>,
                ampm |-> -1, sign |-> 0, hour |-> -1, minute |-> -1,
                read |-> FALSE, ok |-> TRUE, at |-> 1, legacy |-> FALSE ]
      Legacy(s, i) == [s EXCEPT !.legacy = TRUE, !.at = i]
      signed == Sym(1, "+") \/ Sym(1, "-")
      year ==
        IF signed
          THEN IF ~Fixed(2, 6)
                 THEN Legacy(none, 1)
                 ELSE IF Sym(1, "-") /\ P(2).n = 0
                   \* The sign goes to the second pass, which ignores it
                   \* before any number; the six zeros have been consumed.
                   THEN Legacy(none, 3)
                   ELSE [none EXCEPT
                           !.day = <<(IF Sym(1, "-") THEN -1 ELSE 1) * P(2).n>>,
                           !.read = TRUE, !.at = 3]
          ELSE IF Fixed(1, 4)
            THEN [none EXCEPT !.day = <<P(1).n>>, !.read = TRUE, !.at = 2]
            ELSE Legacy(none, 1)
      Component(s, most) ==
        IF s.legacy \/ ~Sym(s.at, "-")
          THEN s
          ELSE IF Fixed(s.at + 1, 2) /\ P(s.at + 1).n \in 1..most
            THEN [s EXCEPT !.day = Append(@, P(s.at + 1).n), !.at = s.at + 2]
            ELSE Legacy(s, s.at + 1)
      month == Component(year, 12)
  IN  IF Len(month.day) = 2 THEN Component(month, 31) ELSE month

\* Then, after the date that `day` holds, the time and the zone.
ParseES5Time(toks, day) ==
  LET P(i) == PeekToken(toks, i)
      Fixed(i, len) == P(i).k = "number" /\ P(i).len = len
      Sym(i, c) == P(i).k = "symbol" /\ P(i).c = c
      j == day.at + 1
      h == P(j).n
      hasSeconds == Sym(j + 3, ":")
      hasMillis == hasSeconds /\ Sym(j + 5, ".")
      z == j + 3 + (IF hasSeconds THEN 2 ELSE 0) + (IF hasMillis THEN 2 ELSE 0)
      isZ == P(z).k = "zone" /\ P(z).len = 1
      offset == Sym(z, "+") \/ Sym(z, "-")
      hhmm == Fixed(z + 1, 4)
      end == z + (IF isZ THEN 1 ELSE IF offset THEN (IF hhmm THEN 2 ELSE 4) ELSE 0)
      formed ==
        /\ Fixed(j, 2) /\ h <= 24
        /\ Sym(j + 1, ":")
        /\ Fixed(j + 2, 2) /\ P(j + 2).n <= 59 /\ (h = 24 => P(j + 2).n = 0)
        /\ hasSeconds =>
             Fixed(j + 4, 2) /\ P(j + 4).n <= 59 /\ (h = 24 => P(j + 4).n = 0)
        /\ hasMillis => P(j + 6).k = "number" /\ (h = 24 => P(j + 6).n = 0)
        /\ (~isZ /\ offset) =>
             IF hhmm
               THEN P(z + 1).n \div 100 <= 23 /\ P(z + 1).n % 100 <= 59
               ELSE /\ Fixed(z + 1, 2) /\ P(z + 1).n <= 23
                    /\ Sym(z + 2, ":")
                    /\ Fixed(z + 3, 2) /\ P(z + 3).n <= 59
        /\ end > Len(toks)
      time ==
        <<h, P(j + 2).n>>
          \o (IF hasSeconds THEN <<P(j + 4).n>> ELSE <<>>)
          \o (IF hasMillis THEN <<ReadMilliseconds(P(j + 6))>> ELSE <<>>)
  IN  IF day.legacy
        THEN day
        ELSE IF P(day.at).k # "tsep"
          THEN IF day.at > Len(toks)
                 THEN [day EXCEPT !.iso = TRUE, !.sign = 1, !.hour = 0, !.minute = 0]
                 ELSE [day EXCEPT !.legacy = TRUE]
          ELSE IF ~formed
            THEN [day EXCEPT !.ok = FALSE]
            ELSE [day EXCEPT
                    !.iso = TRUE, !.time = time, !.at = end,
                    !.sign = IF isZ \/ Sym(z, "+") THEN 1
                             ELSE IF Sym(z, "-") THEN -1 ELSE 0,
                    !.hour = IF isZ THEN 0
                             ELSE IF ~offset THEN -1
                             ELSE IF hhmm THEN P(z + 1).n \div 100 ELSE P(z + 1).n,
                    !.minute = IF isZ THEN 0
                               ELSE IF ~offset THEN -1
                               ELSE IF hhmm THEN P(z + 1).n % 100 ELSE P(z + 3).n]

ParseES5DateTime(toks) == ParseES5Time(toks, ParseES5Date(toks))

\* The parser's second pass, token by token from s.at, for the dates of the
\* older formats.  A number before ':' is a component of the time (before
\* '::' it is the hour and the minute is 0); a number before '.' that the
\* time expects is one too and the number after the point gives the
\* milliseconds; a number that an offset hh: expects is its minute; another
\* number that the time expects is its last component; any other number is a
\* component of the day, and a '-' after it is skipped.  am and pm after a
\* time set the offset of its hour, a month name names the month, the name
\* of a time zone after a number sets the zone; any other word is ignored
\* before the first number, if no number follows it at once, and makes the
\* string no date after it.  A sign after a time or after a zone of offset 0
\* begins the offset of the zone: hh:, h, hh, hmm or hhmm.  Another sign or a
\* ')' after a number makes the string no date; every other token is
\* ignored.
RECURSIVE ParseLegacyDate(_, _)
ParseLegacyDate(toks, s) ==
  IF ~s.ok \/ s.at > Len(toks)
    THEN s
    ELSE
      LET t == toks[s.at]
          j == s.at + 1
          P(i) == PeekToken(toks, i)
          Sym(i, c) == P(i).k = "symbol" /\ P(i).c = c
          Sign(i) == Sym(i, "+") \/ Sym(i, "-")
          Fail == [s EXCEPT !.ok = FALSE]
          Expecting(n) ==
            \/ Len(s.time) \in {1, 2} /\ n <= 59
            \/ Len(s.time) = 3 /\ n <= 999
          Final(time, n) ==
            IF Len(time) >= 4
              THEN time
              ELSE Append(time, n) \o [i \in 1..(3 - Len(time)) |-> 0]
          dot == Sym(j, ".")
          k == IF dot THEN j + 1 ELSE j
          number ==
            IF Sym(j, ":")
              THEN IF Sym(j + 1, ":")
                     THEN IF s.time # <<>>
                            THEN Fail
                            ELSE [s EXCEPT !.time = <<t.n, 0>>, !.at = j + 2]
                     ELSE IF Len(s.time) >= 4
                       THEN Fail
                       ELSE [s EXCEPT !.time = Append(@, t.n),
                                      !.at = IF Sym(j + 1, ".") THEN j + 2 ELSE j + 1]
              ELSE IF dot /\ Expecting(t.n)
                THEN IF P(k).k # "number"
                       THEN Fail
                       ELSE [s EXCEPT
                               !.time = Final(Append(@, t.n), ReadMilliseconds(P(k))),
                               !.at = k + 1]
                ELSE IF s.hour # -1 /\ s.minute = -1 /\ t.n <= 59
                  THEN [s EXCEPT !.minute = t.n, !.at = k]
                  ELSE IF Expecting(t.n)
                    THEN IF \/ P(k).k \in {"end", "space"}
                            \/ P(k).k = "zone" /\ P(k).len = 1
                            \/ Sign(k)
                           THEN [s EXCEPT !.time = Final(@, t.n), !.at = k]
                           ELSE Fail
                    ELSE IF Len(s.day) >= 3
                      THEN Fail
                      ELSE [s EXCEPT !.day = Append(@, t.n),
                                     !.at = IF Sym(k, "-") THEN k + 1 ELSE k]
          keyword ==
            IF t.k = "ampm" /\ s.time # <<>>
              THEN [s EXCEPT !.ampm = t.n, !.at = j]
              ELSE IF t.k = "month"
                THEN [s EXCEPT !.named = t.n,
                               !.at = IF Sym(j, "-") THEN j + 1 ELSE j]
                ELSE IF t.k = "zone" /\ s.read
                  THEN [s EXCEPT !.sign = IF t.n < 0 THEN -1 ELSE 1,
                                 !.hour = IF t.n < 0 THEN -t.n ELSE t.n,
                                 !.minute = 0, !.at = j]
                  ELSE IF s.read \/ P(j).k = "number"
                    THEN Fail
                    ELSE [s EXCEPT !.at = j]
          n == IF P(j).k = "number" THEN P(j).n ELSE 0
          len == IF P(j).k = "number" THEN P(j).len ELSE 0
          m == IF P(j).k = "number" THEN j + 1 ELSE j
          zone ==
            IF Sym(m, ":")
              THEN [s EXCEPT !.hour = n, !.minute = -1, !.at = m]
              ELSE IF len \in {1, 2}
                THEN [s EXCEPT !.hour = n, !.minute = 0, !.at = m]
                ELSE IF len \in {3, 4}
                  THEN [s EXCEPT !.hour = n \div 100, !.minute = n % 100, !.at = m]
                  ELSE Fail
          step ==
            IF t.k = "number"
              THEN [number EXCEPT !.read = TRUE]
              ELSE IF t.k \in {"month", "ampm", "zone", "tsep", "word"}
                THEN keyword
                ELSE IF Sign(s.at) /\ ((s.hour = 0 /\ s.minute = 0) \/ s.time # <<>>)
                  THEN [zone EXCEPT !.read = TRUE,
                                    !.sign = IF t.c = "-" THEN -1 ELSE 1]
                  ELSE IF (Sign(s.at) \/ Sym(s.at, ")")) /\ s.read
                    THEN Fail
                    ELSE [s EXCEPT !.at = j]
      IN  ParseLegacyDate(toks, step)

\* The day count of a calendar date; a day beyond the end of the month counts
\* on into the next month, as MakeDay does.
DaysFromCivil(y, m, d) ==
  LET yy == IF m <= 2 THEN y - 1 ELSE y
      era == yy \div 400
      yoe == yy - era * 400
      mp == IF m > 2 THEN m - 3 ELSE m + 9
      doy == (153 * mp + 2) \div 5 + d - 1
      doe == yoe * 365 + yoe \div 4 - yoe \div 100 + doy
  IN  era * 146097 + doe - 719468

\* The time value of what the parser has read, where local time is `zone`
\* minutes ahead of UTC: whether there is one, and its day count from
\* 1970-01-01.  The day is year-month-day for a string of the date-time format or when the first
\* component is no day of a month, else month-day-year, and with a month
\* name the other two components are the day and the year; a missing
\* component is 1; outside the date-time format the years 0 to 49 count from
\* 2000 and 50 to 99 from 1900.  With am or pm the hour is one of 0..12; the
\* time is 24:00:00.000 at most.  The offset of the zone in seconds is
\* computed in 32 bits (the hour after a sign may have nine digits) and must
\* be below 2^31.  The year is 1000000 at most and the time value within
\* 100000000 days of 1970-01-01.  The zone is one of constant offset: the
\* changes of a zone's offset over the year or over history are not modelled.
DateOfComponents(r, zone) ==
  LET c == r.day \o [i \in 1..(3 - Len(r.day)) |-> 1]
      IsDay(x) == x \in 1..31
      ymd == IF r.named = 0
               THEN IF r.iso \/ ~IsDay(c[1])
                      THEN <<c[1], c[2], c[3]>>
                      ELSE <<c[3], c[1], c[2]>>
               ELSE IF ~IsDay(c[1])
                 THEN <<c[1], r.named, c[2]>>
                 ELSE <<c[2], r.named, c[1]>>
      year == IF r.iso
                THEN ymd[1]
                ELSE IF ymd[1] \in 0..49
                  THEN ymd[1] + 2000
                  ELSE IF ymd[1] \in 50..99 THEN ymd[1] + 1900 ELSE ymd[1]
      t == r.time \o [i \in 1..(4 - Len(r.time)) |-> 0]
      hour == IF r.ampm = -1 THEN t[1] ELSE (t[1] % 12) + r.ampm
      timeOk ==
        /\ r.ampm # -1 => t[1] <= 12
        /\ \/ hour <= 23 /\ t[2] <= 59 /\ t[3] <= 59 /\ t[4] <= 999
           \/ hour = 24 /\ t[2] = 0 /\ t[3] = 0 /\ t[4] = 0
      zh == IF r.hour = -1 THEN 0 ELSE r.hour
      zm == IF r.minute = -1 THEN 0 ELSE r.minute
      \* (zh * 3600 + zm * 60) % 2^32 in units of 4 seconds
      quarter ==
        (4 * ((((((zh \div 1048576) * 225) % 256) * 1048576)
                 + (zh % 1048576) * 225) % 268435456)
           + 15 * zm) % 1073741824
      zoneOk == r.sign # 0 => quarter < 536870912
      seconds == hour * 3600 + t[2] * 60 + t[3]
                   - (IF r.sign = 0 THEN zone * 60 ELSE r.sign * ((4 * quarter) % 86400))
      days == DaysFromCivil(year, ymd[2], ymd[3])
                - (IF r.sign = 0 THEN 0 ELSE r.sign * ((4 * quarter) \div 86400))
                + (seconds \div 86400)
      clipped ==
        \/ days \in (-100000000)..99999999
        \/ days = 100000000 /\ seconds % 86400 = 0 /\ t[4] = 0
  IN  IF /\ r.ok
         /\ r.day # <<>>
         /\ ymd[2] \in 1..12 /\ IsDay(ymd[3])
         /\ timeOk
         /\ zoneOk
         /\ year <= 1000000
         /\ clipped
        THEN [ok |-> TRUE, days |-> days]
        ELSE [ok |-> FALSE, days |-> 0]

\* new Date(s) of a string: the two passes of the parser, then the time value
\* of the components read.
DateParse(s, zone) ==
  DateOfComponents(ParseLegacyDate(DateTokens(s), ParseES5DateTime(DateTokens(s))), zone)

\* The date of toISOString for a day count from 1970-01-01 (proleptic
\* Gregorian): YYYY-MM-DD for the years 0 to 9999, else the year with its
\* sign and six digits.
CivilFromDays(days) ==
  LET z == days + 719468
      era == z \div 146097
      doe == z - era * 146097
      yoe == (doe - doe \div 1460 + doe \div 36524 - doe \div 146096) \div 365
      doy == doe - (365 * yoe + yoe \div 4 - yoe \div 100)
      mp == (5 * doy + 2) \div 153
      d == doy - (153 * mp + 2) \div 5 + 1
      m == IF mp < 10 THEN mp + 3 ELSE mp - 9
      y == yoe + era * 400 + (IF m <= 2 THEN 1 ELSE 0)
      Pad(n, width) == [i \in 1..(width - Len(NatToChars(n))) |-> "0"] \o NatToChars(n)
      year == IF y \in 0..9999
                THEN Pad(y, 4)
                ELSE IF y < 0 THEN <<"-">> \o Pad(-y, 6) ELSE <<"+">> \o Pad(y, 6)
  IN  year \o <<"-">> \o Pad(m, 2) \o <<"-">> \o Pad(d, 2)

\* if (!dateStr) return ''; a number is a count of milliseconds (86400000 to
\* the day) from 1970-01-01 and any other value is parsed as the string it
\* converts to; an invalid date returns dateStr itself; a valid one the first
\* ten characters of its toISOString().
formatDateToYMD(dateStr) ==
  LET days == IF dateStr.t = "num"
                THEN [ok |-> TRUE, days |-> dateStr.n \div 86400000]
                ELSE DateParse(ToChars(dateStr), timeZone)
  IN  IF ~Truthy(dateStr)
        THEN EmptyStr
        ELSE IF days.ok
          THEN Str(SubSeq(CivilFromDays(days.days), 1, 10))
          ELSE dateStr

(***************************************************************************)
(* report_name                                                             *)
(***************************************************************************)
\* .replace(/([a-z])([A-Z0-9])/g, '$1 $2'): a space between a lower-case
\* letter and an upper-case letter or digit that follows it.
RECURSIVE SplitLowerUpper(_)
SplitLowerUpper(s) ==
  IF Len(s) < 2
    THEN s
    ELSE IF IsLower(s[1]) /\ (IsUpper(s[2]) \/ IsDigit(s[2]))
      THEN <<s[1], " ">> \o SplitLowerUpper(Tail(s))
      ELSE <<s[1]>> \o SplitLowerUpper(Tail(s))

\* .replace(/([A-Z])([A-Z][a-z])/g, '$1 $2'): a match takes three characters
\* and the search goes on after them.
RECURSIVE SplitUpperWord(_)
SplitUpperWord(s) ==
  IF Len(s) < 3
    THEN s
    ELSE IF IsUpper(s[1]) /\ IsUpper(s[2]) /\ IsLower(s[3])
      THEN <<s[1], " ", s[2], s[3]>> \o SplitUpperWord(SubSeq(s, 4, Len(s)))
      ELSE <<s[1]>> \o SplitUpperWord(Tail(s))

ReportName(sheetName) == Trim(SplitUpperWord(SplitLowerUpper(sheetName)))

(***************************************************************************)
(* Question text cleaning                                                  *)
(***************************************************************************)
RECURSIVE TokenPrefixLen(_)
TokenPrefixLen(s) ==
  IF s # <<>> /\ IsTokenChar(Head(s)) THEN 1 + TokenPrefixLen(Tail(s)) ELSE 0

\* .replace(/\[[a-zA-Z0-9_]+\]/g, '')
RECURSIVE StripTokens(_)
StripTokens(s) ==
  IF s = <<>>
    THEN <<>>
    ELSE LET n == TokenPrefixLen(Tail(s))
         IN  IF Head(s) = "[" /\ n > 0 /\ Len(s) >= n + 2 /\ s[n + 2] = "]"
               THEN StripTokens(SubSeq(s, n + 3, Len(s)))
               ELSE <<Head(s)>> \o StripTokens(Tail(s))

\* String(value).replace(/\[[a-zA-Z0-9_]+\]/g, '').trim()
CleanQuestionText(value) == Trim(StripTokens(ToChars(value)))

(***************************************************************************)
(* The row loop of parseSpreadsheetBuffer: one data row                    *)
(***************************************************************************)
\* row[c] (c counted from 1): undefined beyond the end of the row.
Cell(row, c) == IF c \in DOMAIN row /\ row[c] # Hole THEN row[c] ELSE Undef

\* value !== undefined && value !== null && value !== ''
IsPresent(value) == value.t \notin {"undef", "null"} /\ value # EmptyStr

\* An element of headers that map has left empty: it is no string.
NoField == <<"empty slot">>

\* rows[0].map((h) => mapHeader(h) || normalizeHeader(h)): map calls the
\* function on the cells the row has and leaves the empty slots empty; a
\* header mapped to the function Object is kept as "Object", which equals no
\* field name.
MapHeaders(headerRow) ==
  [c \in DOMAIN headerRow |->
     IF headerRow[c] = Hole
       THEN NoField
       ELSE IF Truthy(mapHeader(headerRow[c]))
         THEN mapHeader(headerRow[c]).s
         ELSE normalizeHeader(headerRow[c])]

\* The locals of one iteration as the declarations leave them.
RowLocals(lastNumber, lastText, lastSub) ==
  [ question_number |-> lastNumber,
    question_text |-> lastText,
    sub_question_text |-> lastSub,
    respondent |-> EmptyStr,
    position |-> EmptyStr,
    score |-> Undef,
    comment |-> EmptyStr,
    skip_reason |-> EmptyStr,
    response |-> EmptyStr,
    newQuestionText |-> FALSE,
    explicitQuestionNumber |-> FALSE,
    foundQuestionNumber |-> Null,
    lastQuestionNumber |-> lastNumber,
    lastQuestionText |-> lastText,
    lastSubQuestionText |-> lastSub ]

\* field === 'question_number'
QuestionNumberColumn(st, value) ==
  IF IsPresent(value) /\ parseInt(value) # NaN
    THEN [st EXCEPT !.foundQuestionNumber = parseInt(value),
                    !.explicitQuestionNumber = TRUE]
    ELSE st

\* A variant of BoundarySubQuestion without the else branch: the locals keep
\* the sub-question the row started with.
BoundarySubQuestionInherit(st, hdrs, row) ==
  LET subs == {c \in DOMAIN hdrs : hdrs[c] = F_sub_question_text}
      subIdx == CHOOSE c \in subs : \A d \in subs : c <= d
  IN  IF subs # {} /\ Truthy(Cell(row, subIdx))
        THEN Cell(row, subIdx)
        ELSE st.lastSubQuestionText

\* The boundary row's sub-question: the cell of the first column mapped to
\* sub_question_text when it is truthy, else '' ("else clear it").
BoundarySubQuestion(st, hdrs, row) ==
  LET subs == {c \in DOMAIN hdrs : hdrs[c] = F_sub_question_text}
      subIdx == CHOOSE c \in subs : \A d \in subs : c <= d
  IN  IF subs # {} /\ Truthy(Cell(row, subIdx))
        THEN Cell(row, subIdx)
        ELSE EmptyStr

\* field === 'question_text' && value
QuestionTextColumn(st, hdrs, row, value) ==
  LET cleaned == Str(CleanQuestionText(value))
  IN  IF Truthy(value) /\ cleaned # st.lastQuestionText
        THEN [st EXCEPT !.question_text = cleaned,
                        !.lastQuestionText = cleaned,
                        !.sub_question_text = BoundarySubQuestion(st, hdrs, row),
                        !.lastSubQuestionText = BoundarySubQuestion(st, hdrs, row),
                        !.newQuestionText = TRUE]
        ELSE st

\* A variant of SubQuestionColumn that does not store the value in
\* lastSubQuestionText.
SubQuestionColumnNoCarry(st, value) ==
  IF Truthy(value)
    THEN [st EXCEPT !.sub_question_text = value]
    ELSE st

\* field === 'sub_question_text' && value
SubQuestionColumn(st, value) ==
  IF Truthy(value)
    THEN [st EXCEPT !.sub_question_text = value, !.lastSubQuestionText = value]
    ELSE st

\* A variant of ScoreColumn without the Number.isNaN test: every present
\* cell is parsed as a number.
ScoreColumnAlwaysNumber(st, value) ==
  IF IsPresent(value)
    THEN [st EXCEPT !.score = OrElse(parseInt(value), Num(0)),
                    !.response = EmptyStr]
    ELSE st

\* A variant of ScoreColumn without the "|| 0" after Number.parseInt.
ScoreColumnNoDefault(st, value) ==
  IF IsPresent(value)
    THEN IF NumberIsNaN(value)
           THEN [st EXCEPT !.response = value]
           ELSE [st EXCEPT !.score = parseInt(value), !.response = EmptyStr]
    ELSE st

\* field === 'score': the overloaded column.
ScoreColumn(st, value) ==
  IF IsPresent(value)
    THEN IF NumberIsNaN(value)
           THEN [st EXCEPT !.response = value]
           ELSE [st EXCEPT !.score = OrElse(parseInt(value), Num(0)),
                           !.response = EmptyStr]
    ELSE st

\* field === 'response' && response === ''
ResponseColumn(st, value) ==
  IF st.response = EmptyStr
    THEN [st EXCEPT !.response = OrElse(value, EmptyStr)]
    ELSE st

\* The body of the column loop for column c.
ScanColumn(st, hdrs, row, c) ==
  LET field == hdrs[c]
      value == Cell(row, c)
  IN  CASE field \in {NoField, <<>>} -> st
        [] field = F_question_number -> QuestionNumberColumn(st, value)
        [] field = F_question_text -> QuestionTextColumn(st, hdrs, row, value)
        [] field = F_sub_question_text -> SubQuestionColumn(st, value)
        [] field = F_respondent -> [st EXCEPT !.respondent = OrElse(value, EmptyStr)]
        [] field = F_position -> [st EXCEPT !.position = OrElse(value, EmptyStr)]
        [] field = F_score -> ScoreColumn(st, value)
        [] field = F_comment -> [st EXCEPT !.comment = OrElse(value, EmptyStr)]
        [] field = F_skip_reason -> [st EXCEPT !.skip_reason = OrElse(value, EmptyStr)]
        [] field = F_response -> ResponseColumn(st, value)
        [] OTHER -> st

\* for (let c = 0; c < headers.length; c++), from column c on.
RECURSIVE ScanColumns(_, _, _, _)
ScanColumns(st, hdrs, row, c) ==
  IF c > Len(hdrs)
    THEN st
    ELSE ScanColumns(ScanColumn(st, hdrs, row, c), hdrs, row, c + 1)

\* A variant of ResolveQuestionNumber in which a boundary row without a number
\* of its own inherits lastQuestionNumber.
ResolveQuestionNumberInherit(st) ==
  IF st.explicitQuestionNumber
    THEN [st EXCEPT !.question_number = st.foundQuestionNumber,
                    !.lastQuestionNumber = st.foundQuestionNumber]
    ELSE [st EXCEPT !.question_number = st.lastQuestionNumber]

\* "Set question_number logic after parsing all columns"
ResolveQuestionNumber(st) ==
  IF st.newQuestionText
    THEN IF st.explicitQuestionNumber
           THEN [st EXCEPT !.question_number = st.foundQuestionNumber,
                           !.lastQuestionNumber = st.foundQuestionNumber]
           ELSE [st EXCEPT !.question_number = Null,
                           !.lastQuestionNumber = Null]
    ELSE IF st.explicitQuestionNumber
           THEN [st EXCEPT !.question_number = st.foundQuestionNumber,
                           !.lastQuestionNumber = st.foundQuestionNumber]
           ELSE [st EXCEPT !.question_number = st.lastQuestionNumber]

\* A variant of ParseRow that leaves the iteration before the column loop
\* when the row has no respondent cell.
ParseRowSkipUnanswered(lastNumber, lastText, lastSub, hdrs, row) ==
  IF \A c \in DOMAIN hdrs : hdrs[c] = F_respondent => ~Truthy(Cell(row, c))
    THEN RowLocals(lastNumber, lastText, lastSub)
    ELSE ResolveQuestionNumber(
           ScanColumns(RowLocals(lastNumber, lastText, lastSub), hdrs, row, 1))

\* The locals at the end of the iteration for `row`.
ParseRow(lastNumber, lastText, lastSub, hdrs, row) ==
  ResolveQuestionNumber(
    ScanColumns(RowLocals(lastNumber, lastText, lastSub), hdrs, row, 1))

\* respondent && String(respondent).trim() !== ''
IsAccepted(respondent) ==
  Truthy(respondent) /\ Trim(ToChars(respondent)) # <<>>

\* `${question_number}|${question_text}|${sub_question_text}`
qKey(st) ==
  ToChars(st.question_number) \o <<"|">> \o ToChars(st.question_text)
    \o <<"|">> \o ToChars(st.sub_question_text)

\* questionObj: question_number ?? null; sub_question_text is set only when
\* truthy (Undef: no field).
QuestionObj(st) ==
  [ question_number |->
      IF st.question_number \in {Undef, Null} THEN Null ELSE st.question_number,
    question_text |-> OrElse(st.question_text, EmptyStr),
    sub_question_text |->
      IF Truthy(st.sub_question_text) THEN st.sub_question_text ELSE Undef,
    responses |-> <<>> ]

\* responseObj, "omitting empty fields" (Undef: no field).
ResponseObj(st) ==
  [ respondent |-> st.respondent,
    score |-> IF st.score.t \notin {"undef", "null"} /\ st.score # EmptyStr
                THEN st.score ELSE Undef,
    comment |-> IF Truthy(st.comment) THEN st.comment ELSE Undef,
    skip_reason |-> IF Truthy(st.skip_reason) THEN st.skip_reason ELSE Undef,
    response |-> IF Truthy(st.response) THEN st.response ELSE Undef ]

\* A variant of AddRespondee without the has() guard: a later row overwrites
\* the position.
AddRespondeeOverwrite(map, respondent, position) ==
  MapSet(map, respondent, [name |-> respondent, position |-> position])

\* if (!respondeeMap.has(respondent)) respondeeMap.set(respondent, {name, position})
AddRespondee(map, respondent, position) ==
  IF MapHas(map, respondent)
    THEN map
    ELSE MapSet(map, respondent, [name |-> respondent, position |-> position])

\* questionMap.set(qKey, questionObj): the source sets the fresh questionObj
\* for every accepted row, also when the key is already in the map.
SetQuestion(map, st) == MapSet(map, qKey(st), QuestionObj(st))

\* questionMap.get(qKey).responses.push(responseObj)
PushResponse(map, st) ==
  LET q == MapGet(map, qKey(st))
  IN  MapSet(map, qKey(st),
             [q EXCEPT !.responses = Append(q.responses, ResponseObj(st))])

\* The questionMap after the accepted row whose locals are st.
AddResponse(map, st) == PushResponse(SetQuestion(map, st), st)

\* The questionMap after the data rows whose locals are outs[1..Len(outs)].
SheetQuestionMap(outs) ==
  LET f[i \in 0..Len(outs)] ==
        IF i = 0
          THEN <<>>
          ELSE IF IsAccepted(outs[i].respondent)
            THEN AddResponse(f[i - 1], outs[i])
            ELSE f[i - 1]
  IN  f[Len(outs)]

\* { report_name, questions: Array.from(questionMap.values()) } of one sheet.
SheetReport(name, outs) ==
  [ report_name |-> ReportName(name),
    questions |-> MapValues(SheetQuestionMap(outs)) ]

(***************************************************************************)
(* SpreadsheetSchema                                                       *)
(***************************************************************************)
\* z.string().optional(), z.number().optional(): Undef is the missing field.
OptionalString(v) == v.t \in {"str", "undef"}

OptionalNumber(v) == v.t \in {"num", "undef"}

ResponseSchema(r) ==
  /\ IsStr(r.respondent)
  /\ OptionalNumber(r.score)
  /\ OptionalString(r.comment)
  /\ OptionalString(r.skip_reason)
  /\ OptionalString(r.response)

QuestionSchema(q) ==
  /\ q.question_number.t \in {"num", "null"}
  /\ IsStr(q.question_text)
  /\ OptionalString(q.sub_question_text)
  /\ \A i \in DOMAIN q.responses : ResponseSchema(q.responses[i])

ReportSchema(r) ==
  \A i \in DOMAIN r.questions : QuestionSchema(r.questions[i])

RespondeeSchema(r) == IsStr(r.name) /\ OptionalString(r.position)

\* A variant of SpreadsheetSchema that validates the two top-level strings
\* only.
SpreadsheetSchemaShallow(doc) ==
  /\ IsStr(doc.client_name)
  /\ IsStr(doc.created_date)

\* SpreadsheetSchema.parse(spreadsheetJson) does not throw.
SpreadsheetSchema(doc) ==
  /\ IsStr(doc.client_name)
  /\ IsStr(doc.created_date)
  /\ \A i \in DOMAIN doc.reports : ReportSchema(doc.reports[i])
  /\ \A i \in DOMAIN doc.respondees : RespondeeSchema(doc.respondees[i])

(***************************************************************************)
(* getUnmatchedHeaders                                                     *)
(***************************************************************************)
\* new Set() with add(), as the sequence of its members in insertion order.
SetAdd(set, v) == IF \E i \in DOMAIN set : set[i] = v THEN set ELSE Append(set, v)

RECURSIVE UnmatchedOfRow(_, _)
UnmatchedOfRow(headerRow, acc) ==
  IF headerRow = <<>>
    THEN acc
    ELSE UnmatchedOfRow(Tail(headerRow),
                        IF Truthy(mapHeader(Cell(headerRow, 1)))
                          THEN acc
                          ELSE SetAdd(acc, Cell(headerRow, 1)))

\* A variant of getUnmatchedHeaders that skips the sheets the sheet loop
\* skips (rows.length < 2).
RECURSIVE getUnmatchedHeadersOfParsed(_, _)
getUnmatchedHeadersOfParsed(dataSheets, acc) ==
  IF dataSheets = <<>>
    THEN acc
    ELSE getUnmatchedHeadersOfParsed(Tail(dataSheets),
                                     IF Len(Head(dataSheets).rows) < 2
                                       THEN acc
                                       ELSE UnmatchedOfRow(Head(dataSheets).rows[1], acc))

\* Over the data sheets (every sheet but the first); a sheet without rows is
\* skipped.  dataSheets[i].rows[1] is the header row.
RECURSIVE getUnmatchedHeaders(_, _)
getUnmatchedHeaders(dataSheets, acc) ==
  IF dataSheets = <<>>
    THEN acc
    ELSE getUnmatchedHeaders(Tail(dataSheets),
                             IF Len(Head(dataSheets).rows) < 1
                               THEN acc
                               ELSE UnmatchedOfRow(Head(dataSheets).rows[1], acc))

(***************************************************************************)
(* The state of one call of parseSpreadsheetBuffer                         *)
(***************************************************************************)
VARIABLES
  pc,                  \* where the call stands
  sheetCount,          \* sheetNames.length
  detailsRows,         \* the rows of the details sheet read so far
  client_name,
  created_date,
  sheets,              \* the data sheets read so far: name, rows, and the
                       \* locals each data row ended its iteration with
  headers,
  lastQuestionNumber,
  lastQuestionText,
  lastSubQuestionText,
  questionMap,
  reportMap,
  respondeeMap,
  result,              \* the returned document
  error,               \* the message of the thrown Error
  spreadsheets,        \* the argument of a call of a compile function
  summary,             \* the array a compile function returned
  calls,               \* the calls completed before the current one
  questionNumber,      \* prepare.js: the --question filter, or null
  filePaths,           \* prepare.js: the input paths
  fileIndex,           \* prepare.js: the iterations of the batch loop done
  written,             \* prepare.js: the files writeFileSync has written
  progress,            \* prepare.js: the value of the progress bar
  outDir,              \* prepare.js: the output directory
  fileSystem           \* prepare.js: what the file system holds at the default
                       \* data directory and at the output directory

\* let outDir = "context/reports": the default, when --outdir is not given.
DefaultOutDir == <<"c","o","n","t","e","x","t","/","r","e","p","o","r","t","s">>

\* A file system of which prepare.js reads nothing: no default data
\* directory, and the output directory in place.
NoFileSystem ==
  [ dataDir |-> [kind |-> "missing", entries |-> <<>>], outDir |-> "exists" ]

vars ==
  << pc, sheetCount, detailsRows, client_name, created_date, sheets, headers,
     lastQuestionNumber, lastQuestionText, lastSubQuestionText, questionMap,
     reportMap, respondeeMap, result, error, spreadsheets, summary, calls,
     questionNumber, filePaths, fileIndex, written, progress, timeZone,
     outDir, fileSystem >>

\* What belongs to the callers of parseSpreadsheetBuffer and to the compile
\* functions: no statement of parseSpreadsheetBuffer reads or writes it.
callerVars ==
  << spreadsheets, summary, calls, questionNumber, filePaths, fileIndex,
     written, progress >>

\* No compile function has been called and prepare.js is not running.
NoCaller ==
  /\ spreadsheets = <<>>
  /\ summary = <<>>
  /\ calls = <<>>
  /\ questionNumber = Null
  /\ filePaths = <<>>
  /\ fileIndex = 0
  /\ written = <<>>
  /\ progress = 0

NoDocument ==
  [ client_name |-> Undef, created_date |-> Undef, reports |-> <<>>,
    respondees |-> <<>>, hasUnmatchedHeaders |-> FALSE, unmatchedHeaders |-> <<>> ]

\* The data rows read so far over all data sheets.
RowsRead ==
  LET n[i \in 0..Len(sheets)] ==
        IF i = 0 THEN 0 ELSE n[i - 1] + Len(sheets[i].outs)
  IN  n[Len(sheets)]

\* The sheet the row loop is in.
Current == sheets[Len(sheets)]

\* The time zones of the model, of constant offset: UTC-8, UTC and UTC+9.
TimeZones == {-480, 0, 540}

\* The state at the call on a workbook of some number of sheets, in a process
\* of some time zone.
InitCallIn(counts, zones) ==
  /\ pc = "start"
  /\ sheetCount \in counts
  /\ timeZone \in zones
  /\ outDir = DefaultOutDir
  /\ fileSystem = NoFileSystem
  /\ detailsRows = <<>>
  /\ client_name = EmptyStr
  /\ created_date = EmptyStr
  /\ sheets = <<>>
  /\ headers = <<>>
  /\ lastQuestionNumber = Null
  /\ lastQuestionText = EmptyStr
  /\ lastSubQuestionText = EmptyStr
  /\ questionMap = <<>>
  /\ reportMap = <<>>
  /\ respondeeMap = <<>>
  /\ result = NoDocument
  /\ error = ""
  /\ NoCaller

\* The call in a process whose time zone is UTC.
InitCall(counts) == InitCallIn(counts, {0})

\* if (sheetNames.length < 2) throw
CheckSheetCount ==
  /\ pc = "start"
  /\ IF sheetCount < 2
       THEN pc' = "threw" /\ error' = "Excel file must contain at least a details sheet and one data sheet"
       ELSE pc' = "details" /\ error' = error
  /\ UNCHANGED << timeZone, outDir, fileSystem, callerVars, sheetCount, detailsRows, client_name, created_date, sheets,
                  headers, lastQuestionNumber, lastQuestionText,
                  lastSubQuestionText, questionMap, reportMap, respondeeMap,
                  result >>

\* One iteration of the loop over detailsRows: row[0] and row[1] are read as
\* cells, an empty slot of the row giving undefined.
ReadDetailsRow(row) ==
  /\ pc = "details"
  /\ detailsRows' = Append(detailsRows, row)
  /\ IF Len(row) < 2
       THEN UNCHANGED << client_name, created_date >>
       ELSE /\ client_name' =
                 IF Cell(row, 1) = Str(<<"C","l","i","e","n","t"," ","N","a","m","e">>)
                   THEN Cell(row, 2) ELSE client_name
            /\ created_date' =
                 IF Cell(row, 1) = Str(<<"C","r","e","a","t","e","d">>)
                   THEN formatDateToYMD(Cell(row, 2)) ELSE created_date
  /\ UNCHANGED << timeZone, outDir, fileSystem, callerVars, pc, sheetCount, sheets, headers, lastQuestionNumber,
                  lastQuestionText, lastSubQuestionText, questionMap,
                  reportMap, respondeeMap, result, error >>

\* A variant of DetailsMissing with && for ||.
DetailsMissingBoth(name, date) == ~Truthy(name) /\ ~Truthy(date)

\* !client_name || !created_date
DetailsMissing(name, date) == ~Truthy(name) \/ ~Truthy(date)

\* The end of the details sheet: throw, or go on to the data sheets.
CheckDetails ==
  /\ pc = "details"
  /\ IF DetailsMissing(client_name, created_date)
       THEN pc' = "threw" /\ error' = "Could not extract client_name or created_date from details sheet"
       ELSE pc' = "sheets" /\ error' = error
  /\ UNCHANGED << timeZone, outDir, fileSystem, callerVars, sheetCount, detailsRows, client_name, created_date, sheets,
                  headers, lastQuestionNumber, lastQuestionText,
                  lastSubQuestionText, questionMap, reportMap, respondeeMap,
                  result >>

\* A data sheet with fewer than 2 rows (rows is <<>> or holds the header row
\* alone): if (rows.length < 2) continue.
SkipSheet(name, rows) ==
  /\ pc = "sheets"
  /\ Len(sheets) + 1 < sheetCount
  /\ Len(rows) < 2
  /\ \A i \in DOMAIN sheets : sheets[i].name # name
  /\ sheets' = Append(sheets, [name |-> name, rows |-> rows, outs |-> <<>>])
  /\ UNCHANGED << timeZone, outDir, fileSystem, callerVars, pc, sheetCount, detailsRows, client_name, created_date,
                  headers, lastQuestionNumber, lastQuestionText,
                  lastSubQuestionText, questionMap, reportMap, respondeeMap,
                  result, error >>

\* A variant of BeginSheet with the carry-forward variables declared outside
\* the loop over the sheets: a sheet starts with what the last one left.
BeginSheetKeepCarry(name, headerRow) ==
  /\ pc = "sheets"
  /\ Len(sheets) + 1 < sheetCount
  /\ \A i \in DOMAIN sheets : sheets[i].name # name
  /\ sheets' = Append(sheets, [name |-> name, rows |-> <<headerRow>>, outs |-> <<>>])
  /\ headers' = MapHeaders(headerRow)
  /\ questionMap' = <<>>
  /\ pc' = "rows"
  /\ UNCHANGED << timeZone, outDir, fileSystem, callerVars, sheetCount, detailsRows, client_name, created_date,
                  lastQuestionNumber, lastQuestionText, lastSubQuestionText,
                  reportMap, respondeeMap, result, error >>

\* A data sheet with data rows: the statements before its row loop.
BeginSheet(name, headerRow) ==
  /\ pc = "sheets"
  /\ Len(sheets) + 1 < sheetCount
  /\ \A i \in DOMAIN sheets : sheets[i].name # name
  /\ sheets' = Append(sheets, [name |-> name, rows |-> <<headerRow>>, outs |-> <<>>])
  /\ headers' = MapHeaders(headerRow)
  /\ lastQuestionNumber' = Null
  /\ lastQuestionText' = EmptyStr
  /\ lastSubQuestionText' = EmptyStr
  /\ questionMap' = <<>>
  /\ pc' = "rows"
  /\ UNCHANGED << timeZone, outDir, fileSystem, callerVars, sheetCount, detailsRows, client_name, created_date,
                  reportMap, respondeeMap, result, error >>

\* One iteration of the row loop.
ProcessRow(row) ==
  /\ pc = "rows"
  /\ LET st == ParseRow(lastQuestionNumber, lastQuestionText,
                        lastSubQuestionText, headers, row)
         accepted == IsAccepted(st.respondent)
     IN  /\ lastQuestionNumber' = st.lastQuestionNumber
         /\ lastQuestionText' = st.lastQuestionText
         /\ lastSubQuestionText' = st.lastSubQuestionText
         /\ respondeeMap' =
              IF accepted
                THEN AddRespondee(respondeeMap, st.respondent, st.position)
                ELSE respondeeMap
         /\ questionMap' =
              IF accepted THEN AddResponse(questionMap, st) ELSE questionMap
         /\ sheets' =
              [sheets EXCEPT ![Len(sheets)] =
                 [@ EXCEPT !.rows = Append(@, row), !.outs = Append(@, st)]]
  /\ UNCHANGED << timeZone, outDir, fileSystem, callerVars, pc, sheetCount, detailsRows, client_name, created_date,
                  headers, reportMap, result, error >>

\* reportMap.set(report_name, { report_name, questions })
EndSheet ==
  /\ pc = "rows"
  /\ Len(Current.outs) >= 1
  /\ reportMap' =
       MapSet(reportMap, ReportName(Current.name),
              [ report_name |-> ReportName(Current.name),
                questions |-> MapValues(questionMap) ])
  /\ pc' = "sheets"
  /\ UNCHANGED << timeZone, outDir, fileSystem, callerVars, sheetCount, detailsRows, client_name, created_date, sheets,
                  headers, lastQuestionNumber, lastQuestionText,
                  lastSubQuestionText, questionMap, respondeeMap, result,
                  error >>

\* spreadsheetJson with the unmatched headers attached.
Document ==
  LET unmatched == getUnmatchedHeaders(sheets, <<>>)
  IN  [ client_name |-> client_name,
        created_date |-> created_date,
        reports |-> MapValues(reportMap),
        respondees |-> MapValues(respondeeMap),
        hasUnmatchedHeaders |-> Len(unmatched) > 0,
        unmatchedHeaders |-> unmatched ]

\* After the last sheet: assemble, validate, return.
Finish ==
  /\ pc = "sheets"
  /\ Len(sheets) + 1 = sheetCount
  /\ IF SpreadsheetSchema(Document)
       THEN pc' = "returned" /\ result' = Document /\ error' = error
       ELSE pc' = "threw" /\ result' = result /\ error' = "ZodError"
  /\ UNCHANGED << timeZone, outDir, fileSystem, callerVars, sheetCount, detailsRows, client_name, created_date, sheets,
                  headers, lastQuestionNumber, lastQuestionText,
                  lastSubQuestionText, questionMap, reportMap, respondeeMap >>

(***************************************************************************)
(* The ExcelJS copy of parseSpreadsheetBuffer (src/unnamed/part_001), on   *)
(* the workbook the call has read.  Its column loop and its resolution of  *)
(* the question number are those of the XLSX version, so the locals a row  *)
(* ends with are the same; the differences are modelled here.              *)
(***************************************************************************)
\* detailsSheet.eachRow: no test of the row's length; a missing cell is null.
ExcelDetails(rows) ==
  LET f[i \in 0..Len(rows)] ==
        IF i = 0
          THEN [client_name |-> EmptyStr, created_date |-> EmptyStr]
          ELSE LET fieldName == Cell(rows[i], 1)
                   value == IF Cell(rows[i], 2) = Undef THEN Null ELSE Cell(rows[i], 2)
               IN  [ client_name |->
                       IF fieldName = Str(<<"C","l","i","e","n","t"," ","N","a","m","e">>)
                         THEN value ELSE f[i - 1].client_name,
                     created_date |->
                       IF fieldName = Str(<<"C","r","e","a","t","e","d">>)
                         THEN formatDateToYMD(value) ELSE f[i - 1].created_date ]
  IN  f[Len(rows)]

\* if (!questionMap.has(qKey)) { ... questionMap.set(qKey, questionObj); }
SetQuestionIfAbsent(map, st) ==
  IF MapHas(map, qKey(st)) THEN map ELSE MapSet(map, qKey(st), QuestionObj(st))

\* The questionMap after the data rows whose locals are outs[1..Len(outs)].
ExcelQuestionMap(outs) ==
  LET f[i \in 0..Len(outs)] ==
        IF i = 0
          THEN <<>>
          ELSE IF IsAccepted(outs[i].respondent)
            THEN PushResponse(SetQuestionIfAbsent(f[i - 1], outs[i]), outs[i])
            ELSE f[i - 1]
  IN  f[Len(outs)]

\* The reportMap after the loop over the data sheets: every sheet sets its
\* report, also a sheet without data rows.
ExcelReportMap(shs) ==
  LET f[i \in 0..Len(shs)] ==
        IF i = 0
          THEN <<>>
          ELSE MapSet(f[i - 1], ReportName(shs[i].name),
                      [ report_name |-> ReportName(shs[i].name),
                        questions |-> MapValues(ExcelQuestionMap(shs[i].outs)) ])
  IN  f[Len(shs)]

\* headers.forEach((h) => { if (h && !mapHeader(h)) unmatched.add(h) })
RECURSIVE ExcelUnmatchedOfRow(_, _)
ExcelUnmatchedOfRow(headerRow, acc) ==
  IF headerRow = <<>>
    THEN acc
    ELSE ExcelUnmatchedOfRow(Tail(headerRow),
                             IF Truthy(Head(headerRow)) /\ ~Truthy(mapHeader(Head(headerRow)))
                               THEN SetAdd(acc, Head(headerRow))
                               ELSE acc)

\* getUnmatchedHeaders of the ExcelJS copy; row 1 of a sheet without rows has
\* no values.
RECURSIVE ExcelUnmatchedHeaders(_, _)
ExcelUnmatchedHeaders(dataSheets, acc) ==
  IF dataSheets = <<>>
    THEN acc
    ELSE ExcelUnmatchedHeaders(Tail(dataSheets),
                               IF Len(Head(dataSheets).rows) < 1
                                 THEN acc
                                 ELSE ExcelUnmatchedOfRow(Head(dataSheets).rows[1], acc))

\* The document the ExcelJS copy assembles.
ExcelDocument ==
  LET details == ExcelDetails(detailsRows)
      unmatched == ExcelUnmatchedHeaders(sheets, <<>>)
  IN  [ client_name |-> details.client_name,
        created_date |-> details.created_date,
        reports |-> MapValues(ExcelReportMap(sheets)),
        respondees |-> MapValues(respondeeMap),
        hasUnmatchedHeaders |-> Len(unmatched) > 0,
        unmatchedHeaders |-> unmatched ]

\* The ExcelJS copy throws on the workbook read so far.
ExcelThrows ==
  \/ sheetCount < 2
  \/ DetailsMissing(ExcelDetails(detailsRows).client_name,
                    ExcelDetails(detailsRows).created_date)
  \/ ~SpreadsheetSchema(ExcelDocument)

(***************************************************************************)
(* Plain objects, strings in sort order                                    *)
(***************************************************************************)
\* The property names every plain object inherits from Object.prototype.
ObjectPrototypeKeys ==
  { <<"c","o","n","s","t","r","u","c","t","o","r">>,
    <<"h","a","s","O","w","n","P","r","o","p","e","r","t","y">>,
    <<"i","s","P","r","o","t","o","t","y","p","e","O","f">>,
    <<"p","r","o","p","e","r","t","y","I","s","E","n","u","m","e","r","a","b","l","e">>,
    <<"t","o","L","o","c","a","l","e","S","t","r","i","n","g">>,
    <<"t","o","S","t","r","i","n","g">>, <<"v","a","l","u","e","O","f">>,
    <<"_","_","p","r","o","t","o","_","_">>,
    <<"_","_","d","e","f","i","n","e","G","e","t","t","e","r","_","_">>,
    <<"_","_","d","e","f","i","n","e","S","e","t","t","e","r","_","_">>,
    <<"_","_","l","o","o","k","u","p","G","e","t","t","e","r","_","_">>,
    <<"_","_","l","o","o","k","u","p","S","e","t","t","e","r","_","_">> }

\* obj[key] is truthy: an own entry (all own values here are objects) or an
\* inherited property.
HasProperty(obj, key) == MapHas(obj, key) \/ key \in ObjectPrototypeKeys

\* The printable ASCII characters in the order of their UTF-16 code units,
\* from the space (32) to the tilde (126), the grave accent under the name
\* of its code point.
CodeUnitOrder ==
  << " ", "!", "\"", "#", "$", "%", "&", "'", "(", ")", "*", "+", ",", "-",
     ".", "/", "0", "1", "2", "3", "4", "5", "6", "7", "8", "9", ":", ";",
     "<", "=", ">", "?", "@", "A", "B", "C", "D", "E", "F", "G", "H", "I",
     "J", "K", "L", "M", "N", "O", "P", "Q", "R", "S", "T", "U", "V", "W",
     "X", "Y", "Z", "[", "\\", "]", "^", "_", "U+0060", "a", "b", "c", "d", "e",
     "f", "g", "h", "i", "j", "k", "l", "m", "n", "o", "p", "q", "r", "s",
     "t", "u", "v", "w", "x", "y", "z", "{", "|", "}", "~" >>

\* The code units of the control characters the module writes as escapes.
EscapeCodeUnits == { <<"\t", 9>>, <<"\n", 10>>, <<"\f", 12>>, <<"\r", 13>> }

\* The code unit a name "U+hhhh" stands for: the number its four
\* hexadecimal digits write.  A character outside the Basic Multilingual
\* Plane is two code units in a string of the program, and two names in a
\* string of the module.
NamedCodeUnit(c) ==
  LET digits == << "0", "1", "2", "3", "4", "5", "6", "7", "8", "9", "A", "B",
                   "C", "D", "E", "F" >>
      digit(k) == (CHOOSE i \in DOMAIN digits : digits[i] = SubSeq(c, k, k)) - 1
  IN  4096 * digit(3) + 256 * digit(4) + 16 * digit(5) + digit(6)

\* The UTF-16 code unit of a character: of every code unit from 0 to 65535,
\* written as itself, as an escape or as the name of its code point.
CodeUnit(c) ==
  IF \E i \in DOMAIN CodeUnitOrder : CodeUnitOrder[i] = c
    THEN 31 + (CHOOSE i \in DOMAIN CodeUnitOrder : CodeUnitOrder[i] = c)
    ELSE IF \E u \in EscapeCodeUnits : u[1] = c
      THEN (CHOOSE u \in EscapeCodeUnits : u[1] = c)[2]
      ELSE NamedCodeUnit(c)

\* a < b for strings, as the default comparison of Array.prototype.sort.
RECURSIVE StringLess(_, _)
StringLess(a, b) ==
  IF b = <<>>
    THEN FALSE
    ELSE IF a = <<>>
      THEN TRUE
      ELSE IF Head(a) = Head(b)
        THEN StringLess(Tail(a), Tail(b))
        ELSE CodeUnit(Head(a)) < CodeUnit(Head(b))

\* array.sort() on an array of strings.
RECURSIVE SortStrings(_)
SortStrings(array) ==
  IF array = <<>>
    THEN <<>>
    ELSE LET i == CHOOSE k \in DOMAIN array :
                    \A j \in DOMAIN array :
                      ~StringLess(array[j].s, array[k].s) /\ (array[j] = array[k] => k <= j)
         IN  <<array[i]>>
               \o SortStrings([k \in 1..(Len(array) - 1) |->
                                 IF k < i THEN array[k] ELSE array[k + 1]])

(***************************************************************************)
(* compileCompaniesSummary                                                 *)
(***************************************************************************)
\* created_date ? String(created_date).slice(0, 4) : null
YearOf(date) ==
  IF Truthy(date)
    THEN Str(SubSeq(ToChars(date), 1,
                    IF Len(ToChars(date)) < 4 THEN Len(ToChars(date)) ELSE 4))
    ELSE Null

\* for (const r of respondees) if (r && r.name) respondents.add(r.name)
RECURSIVE AddNames(_, _)
AddNames(respondents, respondees) ==
  IF respondees = <<>>
    THEN respondents
    ELSE AddNames(IF Truthy(Head(respondees).name)
                    THEN SetAdd(respondents, Head(respondees).name)
                    ELSE respondents,
                  Tail(respondees))

\* What a compile function has returned, or that it has thrown.
Returned(value) == [threw |-> FALSE, value |-> value]

Thrown == [threw |-> TRUE, value |-> <<>>]

\* One iteration of the loop over spreadsheets.  `companies` is a plain
\* object: for a client_name that names an inherited property no entry is
\* made and the first add() is a call on undefined.
CompaniesSheet(companies, sheet) ==
  LET key == ToChars(sheet.client_name)
      year == YearOf(sheet.created_date)
      entry == IF MapHas(companies, key)
                 THEN MapGet(companies, key)
                 ELSE [name |-> sheet.client_name, respondents |-> <<>>, years |-> <<>>]
  IN  IF ~Truthy(sheet.client_name)
        THEN Returned(companies)
        ELSE IF ~MapHas(companies, key) /\ key \in ObjectPrototypeKeys
          THEN IF (\E i \in DOMAIN sheet.respondees : Truthy(sheet.respondees[i].name))
                    \/ Truthy(year)
                 THEN Thrown
                 ELSE Returned(companies)
          ELSE Returned(
                 MapSet(companies, key,
                        [entry EXCEPT
                           !.respondents = AddNames(@, sheet.respondees),
                           !.years = IF Truthy(year) THEN SetAdd(@, year) ELSE @]))

RECURSIVE CompaniesLoop(_, _)
CompaniesLoop(companies, docs) ==
  IF docs = <<>>
    THEN Returned(companies)
    ELSE LET step == CompaniesSheet(companies, Head(docs))
         IN  IF step.threw THEN Thrown ELSE CompaniesLoop(step.value, Tail(docs))

\* Object.values(companies).map(...): respondents in insertion order, years
\* sorted.
CompanyEntry(c) ==
  [name |-> c.name, respondents |-> c.respondents, years |-> SortStrings(c.years)]

compileCompaniesSummary(docs) ==
  LET loop == CompaniesLoop(<<>>, docs)
  IN  IF loop.threw
        THEN Thrown
        ELSE Returned([i \in DOMAIN loop.value |->
                         CompanyEntry(OwnEntries(loop.value)[i].v)])

(***************************************************************************)
(* compileQuestionsSummary                                                 *)
(***************************************************************************)
\* The body of the loop over report.questions for the question q of a
\* spreadsheet of the given year.  `questions` and each `subquestions` are
\* plain objects.
QuestionsQuestion(questions, year, q) ==
  LET qText == OrElse(q.question_text, EmptyStr)
      key == ToChars(qText)
      subText == q.sub_question_text
      subKey == ToChars(subText)
      entry == IF MapHas(questions, key)
                 THEN MapGet(questions, key)
                 ELSE [question |-> qText, years |-> <<>>, subquestions |-> <<>>]
      subYears == IF MapHas(entry.subquestions, subKey)
                    THEN MapGet(entry.subquestions, subKey)
                    ELSE <<>>
  IN  IF ~Truthy(qText)
        THEN Returned(questions)
        ELSE IF ~MapHas(questions, key) /\ key \in ObjectPrototypeKeys
          THEN IF Truthy(year) \/ Truthy(subText)
                 THEN Thrown
                 ELSE Returned(questions)
          ELSE IF /\ Truthy(subText)
                  /\ ~MapHas(entry.subquestions, subKey)
                  /\ subKey \in ObjectPrototypeKeys
            THEN IF Truthy(year)
                   THEN Thrown
                   ELSE Returned(MapSet(questions, key, entry))
            ELSE Returned(
                   MapSet(questions, key,
                          [entry EXCEPT
                             !.years = IF Truthy(year) THEN SetAdd(@, year) ELSE @,
                             !.subquestions =
                               IF Truthy(subText)
                                 THEN MapSet(@, subKey,
                                             IF Truthy(year)
                                               THEN SetAdd(subYears, year)
                                               ELSE subYears)
                                 ELSE @]))

\* for (const q of report.questions)
RECURSIVE QuestionsReport(_, _, _)
QuestionsReport(questions, year, qs) ==
  IF qs = <<>>
    THEN Returned(questions)
    ELSE LET step == QuestionsQuestion(questions, year, Head(qs))
         IN  IF step.threw THEN Thrown ELSE QuestionsReport(step.value, year, Tail(qs))

\* for (const report of reports)
RECURSIVE QuestionsReports(_, _, _)
QuestionsReports(questions, year, reports) ==
  IF reports = <<>>
    THEN Returned(questions)
    ELSE LET step == QuestionsReport(questions, year, Head(reports).questions)
         IN  IF step.threw
               THEN Thrown
               ELSE QuestionsReports(step.value, year, Tail(reports))

\* for (const sheet of spreadsheets)
RECURSIVE QuestionsLoop(_, _)
QuestionsLoop(questions, docs) ==
  IF docs = <<>>
    THEN Returned(questions)
    ELSE LET step == QuestionsReports(questions, YearOf(Head(docs).created_date),
                                      Head(docs).reports)
         IN  IF step.threw THEN Thrown ELSE QuestionsLoop(step.value, Tail(docs))

\* Object.entries(q.subquestions).map(([sub, years]) => ...)
SubquestionEntries(subquestions) ==
  [i \in DOMAIN subquestions |->
     [ subquestion |-> Str(OwnEntries(subquestions)[i].k),
       years |-> SortStrings(OwnEntries(subquestions)[i].v) ]]

QuestionEntry(q) ==
  [ question |-> q.question,
    years |-> SortStrings(q.years),
    subquestions |-> SubquestionEntries(q.subquestions) ]

compileQuestionsSummary(docs) ==
  LET loop == QuestionsLoop(<<>>, docs)
  IN  IF loop.threw
        THEN Thrown
        ELSE Returned([i \in DOMAIN loop.value |->
                         QuestionEntry(OwnEntries(loop.value)[i].v)])

(***************************************************************************)
(* Calls of the compile functions                                          *)
(***************************************************************************)
\* A caller holds an array of documents and has called no function yet.
InitCompile(arrays) ==
  /\ pc = "compile"
  /\ timeZone = 0
  /\ outDir = DefaultOutDir
  /\ fileSystem = NoFileSystem
  /\ spreadsheets \in arrays
  /\ summary = <<>>
  /\ calls = <<>>
  /\ questionNumber = Null
  /\ filePaths = <<>>
  /\ fileIndex = 0
  /\ written = <<>>
  /\ progress = 0
  /\ sheetCount = 0
  /\ detailsRows = <<>>
  /\ client_name = EmptyStr
  /\ created_date = EmptyStr
  /\ sheets = <<>>
  /\ headers = <<>>
  /\ lastQuestionNumber = Null
  /\ lastQuestionText = EmptyStr
  /\ lastSubQuestionText = EmptyStr
  /\ questionMap = <<>>
  /\ reportMap = <<>>
  /\ respondeeMap = <<>>
  /\ result = NoDocument
  /\ error = ""

\* What a call of a compile function leaves: the array returned, or the
\* TypeError thrown.
Compiled(outcome) ==
  /\ pc' = IF outcome.threw THEN "threw" ELSE "compiled"
  /\ summary' = outcome.value
  /\ error' = IF outcome.threw THEN "TypeError" ELSE error
  /\ UNCHANGED << timeZone, outDir, fileSystem, sheetCount, detailsRows, client_name, created_date, sheets,
                  headers, lastQuestionNumber, lastQuestionText,
                  lastSubQuestionText, questionMap, reportMap, respondeeMap,
                  result, spreadsheets, calls, questionNumber, filePaths,
                  fileIndex, written, progress >>

CallCompileCompanies ==
  /\ pc = "compile"
  /\ Compiled(compileCompaniesSummary(spreadsheets))

CallCompileQuestions ==
  /\ pc = "compile"
  /\ Compiled(compileQuestionsSummary(spreadsheets))

(***************************************************************************)
(* The workbooks explored                                                  *)
(***************************************************************************)
\* The most data sheets of a workbook, rows of the details sheet, and data
\* rows of a workbook (over all its data sheets).
MaxDataSheets == 3

MaxDetailsRows == 2

MaxRows == 3

H_QNumber == Str(<<"Q","#">>)

H_QuestionText == Str(<<"Q","u","e","s","t","i","o","n"," ","T","e","x","t">>)

H_SubQuestionDash == Str(<<"S","u","b","-","Q","u","e","s","t","i","o","n">>)

H_SubQuestion == Str(<<"S","u","b"," ","Q","u","e","s","t","i","o","n">>)

H_Respondent == Str(<<"R","e","s","p","o","n","d","e","n","t">>)

H_Position == Str(<<"P","o","s","i","t","i","o","n">>)

H_Response == Str(<<"R","e","s","p","o","n","s","e">>)

H_Comment == Str(<<"C","o","m","m","e","n","t">>)

H_SkipReason == Str(<<"S","k","i","p"," ","R","e","a","s","o","n">>)

H_Responses == Str(<<"R","e","s","p","o","n","s","e","s">>)

H_QNumberOne == Str(<<"Q","#","1">>)

H_SubQuestionText ==
  Str(<<"S","u","b","-","Q","u","e","s","t","i","o","n"," ","T","e","x","t">>)

H_Score == Str(<<"S","c","o","r","e">>)

H_Constructor == Str(<<"C","o","n","s","t","r","u","c","t","o","r">>)

H_Notes == Str(<<"N","o","t","e","s">>)

\* "Skip Reason" spelled with the Kelvin sign, which toLowerCase turns into k.
H_SkipKelvin == Str(<<"S","U+212A","i","p"," ","R","e","a","s","o","n">>)

V_One == Str(<<"1">>)

V_A == Str(<<"A">>)

V_BToken == Str(<<"B","[","x","]">>)

V_Sub == Str(<<"s">>)

V_J == Str(<<"J">>)

V_K == Str(<<"K">>)

V_Blank == Str(<<" ">>)

V_Tab == Str(<<"\t">>)

V_APipeS == Str(<<"A","|","s">>)

V_SPipeK == Str(<<"s","|","K">>)

V_CFO == Str(<<"C","F","O">>)

V_CEO == Str(<<"C","E","O">>)

V_Four == Str(<<"4">>)

V_NA == Str(<<"N","/","A">>)

V_FourSeven == Str(<<"4",".","7">>)

V_Hex == Str(<<"0","x","1","0">>)

V_Infinity == Str(<<"I","n","f","i","n","i","t","y">>)

V_Comment == Str(<<"c">>)

V_Reason == Str(<<"r">>)

\* A layout is a header row with the values each of its columns may hold.
L_Numbered ==
  [ header |-> <<H_QNumber, H_QuestionText, H_Respondent>>,
    cells |-> << {Undef, V_One}, {EmptyStr, V_A, V_BToken}, {Undef, V_J, V_Blank} >> ]

\* The number column after the question text column; number cells that are
\* empty, numeric and not numeric.
L_NumberLast ==
  [ header |-> <<H_QuestionText, H_QNumber, H_Respondent>>,
    cells |-> << {EmptyStr, V_A, V_BToken}, {Undef, V_One, V_Four, V_NA}, {V_J} >> ]

\* Two sub-question values, the sub-question column after and before the
\* question text column.
L_SubsAfter ==
  [ header |-> <<H_Respondent, H_QuestionText, H_SubQuestion>>,
    cells |-> << {V_J}, {Undef, V_A, V_BToken}, {Undef, V_Sub, V_K} >> ]

L_SubsBefore ==
  [ header |-> <<H_Respondent, H_SubQuestionDash, H_QuestionText>>,
    cells |-> << {V_J}, {Undef, V_Sub, V_K}, {Undef, V_A, V_BToken} >> ]

\* Question and sub-question texts with the '|' character.
L_Pipes ==
  [ header |-> <<H_QuestionText, H_SubQuestionDash, H_Respondent>>,
    cells |-> << {V_APipeS, V_A}, {V_K, V_SPipeK}, {V_J, V_K} >> ]

\* Number, question text and sub-question, each empty or one value.
L_Block ==
  [ header |-> <<H_QNumber, H_QuestionText, H_SubQuestion, H_Respondent>>,
    cells |-> << {Undef, V_One}, {Undef, V_A}, {Undef, V_Sub}, {V_J} >> ]

L_SubFirst ==
  [ header |-> <<H_SubQuestionDash, H_QuestionText, H_Respondent>>,
    cells |-> << {Undef, V_Sub}, {Undef, V_A, V_BToken}, {Undef, V_J} >> ]

L_SubLast ==
  [ header |-> <<H_QuestionText, H_SubQuestion, H_Respondent>>,
    cells |-> << {Undef, V_A, V_BToken}, {EmptyStr, V_Sub}, {Undef, V_J} >> ]

L_Position ==
  [ header |-> <<H_Respondent, H_Position>>,
    cells |-> << {V_J, V_K, Num(5)}, {Undef, V_CFO, V_CEO} >> ]

L_Remarks ==
  [ header |-> <<H_Respondent, H_Comment, H_SkipReason>>,
    cells |-> << {V_J}, {Undef, V_Comment, Num(3)}, {Undef, V_Reason} >> ]

L_Score ==
  [ header |-> <<H_Respondent, H_Response>>,
    cells |-> << {Undef, V_J},
                 {Undef, EmptyStr, V_Four, V_NA, V_Blank, V_FourSeven, Num(0),
                  V_Hex, V_Infinity} >> ]

L_Names ==
  [ header |-> <<H_Respondent, H_Notes>>,
    cells |-> << {V_J, V_K}, {Undef} >> ]

L_TwoScores ==
  [ header |-> <<H_Respondent, H_Response, H_Responses>>,
    cells |-> << {V_J}, {Undef, V_Four, V_NA}, {Undef, V_Four, V_NA} >> ]

L_One ==
  [ header |-> <<H_Respondent>>,
    cells |-> << {V_J, V_Tab} >> ]

\* Header cells with an exact table entry, with a substring match only, with
\* none, one that names an inherited property, one whose capital is outside
\* ASCII, and a cell the sheet does not have.
HeaderCells ==
  { H_SubQuestion, H_QNumberOne, H_SubQuestionText, H_Notes, H_Score,
    H_Constructor, H_SkipKelvin, Hole }

\* A sheet with one of these headers beside the respondent column.
HeaderLayout(h) ==
  [ header |-> <<h, H_Respondent>>,
    cells |-> << {Undef, V_A}, {V_J} >> ]

HeaderLayouts == {HeaderLayout(h) : h \in HeaderCells}

Layouts ==
  { L_Numbered, L_SubFirst, L_SubLast, L_Position, L_Remarks, L_Score,
    L_Names, L_One, L_TwoScores, L_NumberLast, L_SubsAfter, L_SubsBefore,
    L_Block, L_Pipes } \cup HeaderLayouts

\* The layouts with question numbers, question texts and sub-questions.
CarryLayouts == {L_Numbered, L_SubFirst, L_SubLast}

\* The layouts with the number column before and after the question text.
NumberLayouts == {L_Numbered, L_NumberLast}

\* The layouts with two sub-question values.
SubsLayouts == {L_SubsAfter, L_SubsBefore}

\* The layouts with numbers in score and comment cells.
CellLayouts == {L_Score, L_Remarks}

\* The layouts with positions and remarks.
RespondeeLayouts == {L_Position, L_Remarks}

\* The rows a layout allows: one value per column.
RECURSIVE RowsOfCells(_)
RowsOfCells(cells) ==
  IF cells = <<>>
    THEN {<<>>}
    ELSE {<<v>> \o r : v \in Head(cells), r \in RowsOfCells(Tail(cells))}

RowsOf(headerRow) ==
  RowsOfCells((CHOOSE L \in Layouts : L.header = headerRow).cells)

\* Sheet names: the details sheet, then data sheets.  "aB" and "a B" give the
\* same report name.
SheetNames ==
  << <<"S","u","m","m","a","r","y">>,
     <<"a","B">>,
     <<"c">>,
     <<"a"," ","B">>,
     <<"D","1">> >>

D_ClientName == Str(<<"C","l","i","e","n","t"," ","N","a","m","e">>)

D_Created == Str(<<"C","r","e","a","t","e","d">>)

V_Acme == Str(<<"A","c","m","e">>)

V_Date == Str(<<"2","0","2","3","-","0","1","-","0","1">>)

V_Tbd == Str(<<"t","b","d">>)

V_Zed == Str(<<"Z","e","d">>)

\* A string that names a property of Object.prototype.
V_ConstructorName == Str(<<"c","o","n","s","t","r","u","c","t","o","r">>)

V_Date24 == Str(<<"2","0","2","4","-","0","6","-","0","1">>)

\* A creation date that is no date and starts with a letter beyond ASCII.
V_DateEte == Str(<<"U+00E9","t","U+00E9">>)

\* A day beyond the end of its month.
V_Date30 == Str(<<"2","0","2","3","-","0","2","-","3","0">>)

\* A date of the month/day/year form, which is read as local time.
V_DateSlash == Str(<<"1","/","5","/","2","0","2","3">>)

\* The same date with the line separator after it, which the date parser
\* reads as a word: no date.
V_DateSeparator == Str(<<"1","/","5","/","2","0","2","3","U+2028">>)

\* A details sheet with both fields.
GoodDetails == << {<<D_ClientName, V_Acme>>}, {<<D_Created, V_Date>>} >>

\* Details sheets with both fields, of strings and of numbers.
TypedDetails ==
  << {<<D_ClientName, V_Acme>>, <<D_ClientName, Num(7)>>},
     {<<D_Created, V_Date>>, <<D_Created, V_Tbd>>} >>

\* The rows a details sheet may hold.
DetailsRowsOf ==
  { <<D_ClientName, V_Acme>>,
    <<D_ClientName, EmptyStr>>,
    <<D_ClientName>>,
    <<Str(<<"c","l","i","e","n","t"," ","n","a","m","e">>), V_Acme>>,
    <<D_Created, V_Date>>,
    <<D_Created, Num(45000)>>,
    <<D_Created, V_Date30>>,
    <<D_Created, V_DateSlash>>,
    <<D_Created, V_DateSeparator>>,
    <<D_Created, Undef>>,
    <<D_ClientName, Hole, V_Acme>> }

\* The statements of the call up to the data sheets; the i-th row of the
\* details sheet is one of choices[i].
ReadDetails(choices) ==
  \/ CheckSheetCount
  \/ /\ Len(detailsRows) < Len(choices)
     /\ \E row \in choices[Len(detailsRows) + 1] : ReadDetailsRow(row)
  \/ /\ Len(detailsRows) = Len(choices)
     /\ CheckDetails

\* The data sheets of fewer than 2 rows that the layouts give: no row at all,
\* or the header row alone.
ShortSheets(layouts) == {<<>>} \cup {<<L.header>> : L \in layouts}

\* The data sheets: the i-th is named SheetNames[i + 1] and laid out by one of
\* the given layouts; it has fewer than 2 rows and is skipped, or it is read
\* row by row.
ReadSheets(layouts) ==
  \/ /\ Len(sheets) + 2 <= Len(SheetNames)
     /\ \E rows \in ShortSheets(layouts) :
          SkipSheet(SheetNames[Len(sheets) + 2], rows)
  \/ /\ Len(sheets) + 2 <= Len(SheetNames)
     /\ RowsRead < MaxRows
     /\ \E L \in layouts : BeginSheet(SheetNames[Len(sheets) + 2], L.header)
  \/ /\ RowsRead < MaxRows
     /\ pc = "rows"
     /\ \E row \in RowsOf(Current.rows[1]) : ProcessRow(row)
  \/ EndSheet
  \/ Finish

\* The arrays of at most n members of a set.
RECURSIVE ArraysOf(_, _)
ArraysOf(S, n) ==
  IF n = 0
    THEN {<<>>}
    ELSE ArraysOf(S, n - 1)
           \cup {Append(a, x) : a \in ArraysOf(S, n - 1), x \in S}

(***************************************************************************)
(* Sequences of calls                                                      *)
(***************************************************************************)
\* The most calls a caller makes.
MaxCalls == 3

\* The call being made, or the last one made.
CurrentCall == calls[Len(calls)]

\* The function is being executed.
Calling(fn) == calls # <<>> /\ ~CurrentCall.done /\ CurrentCall.fn = fn

\* A Map known under a module-level name, which outlives the call.
KeptMap(previous) == previous

\* const reportMap = new Map(); const respondeeMap = new Map(): declared in
\* the function body, a fresh Map at every call whatever an earlier call left.
NewMap(previous) == <<>>

\* The argument of the current call: the workbook as far as the call read it,
\* or the array of documents.
CallInput ==
  IF CurrentCall.fn = "parseSpreadsheetBuffer"
    THEN [ sheetCount |-> sheetCount,
           detailsRows |-> detailsRows,
           sheets |-> [i \in DOMAIN sheets |->
                         [name |-> sheets[i].name, rows |-> sheets[i].rows]] ]
    ELSE spreadsheets

\* What the current call hands to its caller: the value returned or the error
\* thrown.
CallOutput ==
  [ threw |-> pc = "threw",
    error |-> error,
    value |-> IF pc = "returned" THEN result
              ELSE IF pc = "compiled" THEN summary ELSE <<>> ]

\* No call has been made.
InitCalls ==
  /\ pc = "idle"
  /\ timeZone = 0
  /\ outDir = DefaultOutDir
  /\ fileSystem = NoFileSystem
  /\ sheetCount = 0
  /\ detailsRows = <<>>
  /\ client_name = EmptyStr
  /\ created_date = EmptyStr
  /\ sheets = <<>>
  /\ headers = <<>>
  /\ lastQuestionNumber = Null
  /\ lastQuestionText = EmptyStr
  /\ lastSubQuestionText = EmptyStr
  /\ questionMap = <<>>
  /\ reportMap = <<>>
  /\ respondeeMap = <<>>
  /\ result = NoDocument
  /\ error = ""
  /\ NoCaller

\* The caller calls parseSpreadsheetBuffer on a workbook of some number of
\* sheets: the declarations of the function body are executed anew.
StartParse(counts) ==
  /\ pc = "idle"
  /\ Len(calls) < MaxCalls
  /\ calls' = Append(calls, [ fn |-> "parseSpreadsheetBuffer", done |-> FALSE,
                              input |-> <<>>, output |-> <<>> ])
  /\ pc' = "start"
  /\ sheetCount' \in counts
  /\ detailsRows' = <<>>
  /\ client_name' = EmptyStr
  /\ created_date' = EmptyStr
  /\ sheets' = <<>>
  /\ headers' = <<>>
  /\ lastQuestionNumber' = Null
  /\ lastQuestionText' = EmptyStr
  /\ lastSubQuestionText' = EmptyStr
  /\ questionMap' = <<>>
  /\ reportMap' = NewMap(reportMap)
  /\ respondeeMap' = NewMap(respondeeMap)
  /\ result' = NoDocument
  /\ error' = ""
  /\ UNCHANGED << timeZone, outDir, fileSystem, spreadsheets, summary, questionNumber, filePaths, fileIndex,
                  written, progress >>

\* The caller calls a compile function on an array of documents.
StartCompile(fn, arrays) ==
  /\ pc = "idle"
  /\ Len(calls) < MaxCalls
  /\ \E array \in arrays :
       /\ spreadsheets' = array
       /\ calls' = Append(calls, [ fn |-> fn, done |-> FALSE,
                                   input |-> array, output |-> <<>> ])
  /\ pc' = "compile"
  /\ summary' = <<>>
  /\ error' = ""
  /\ UNCHANGED << timeZone, outDir, fileSystem, sheetCount, detailsRows, client_name, created_date, sheets,
                  headers, lastQuestionNumber, lastQuestionText,
                  lastSubQuestionText, questionMap, reportMap, respondeeMap,
                  result, questionNumber, filePaths, fileIndex, written,
                  progress >>

\* The call is over: the caller holds what it passed and what it got.
Return ==
  /\ pc \in {"returned", "threw", "compiled"}
  /\ calls # <<>>
  /\ ~CurrentCall.done
  /\ calls' = [calls EXCEPT ![Len(calls)] =
                 [ fn |-> @.fn, done |-> TRUE,
                   input |-> CallInput, output |-> CallOutput ]]
  /\ pc' = "idle"
  /\ UNCHANGED << timeZone, outDir, fileSystem, sheetCount, detailsRows, client_name, created_date, sheets,
                  headers, lastQuestionNumber, lastQuestionText,
                  lastSubQuestionText, questionMap, reportMap, respondeeMap,
                  result, error, spreadsheets, summary, questionNumber,
                  filePaths, fileIndex, written, progress >>

(***************************************************************************)
(* prepare.js: paths                                                       *)
(***************************************************************************)
\* s.lastIndexOf(c) + 1: 0 when c does not occur.
LastIndexOf(s, c) ==
  IF \E i \in DOMAIN s : s[i] = c
    THEN CHOOSE i \in DOMAIN s : s[i] = c /\ \A j \in DOMAIN s : s[j] = c => j <= i
    ELSE 0

\* The path without the separators at its end.
RECURSIVE StripSeparators(_)
StripSeparators(p) ==
  IF p # <<>> /\ p[Len(p)] = "/"
    THEN StripSeparators(SubSeq(p, 1, Len(p) - 1))
    ELSE p

\* The last segment of a path, the separators at its end aside.
LastSegment(p) ==
  SubSeq(StripSeparators(p), LastIndexOf(StripSeparators(p), "/") + 1,
         Len(StripSeparators(p)))

\* path.basename(p, ext) on POSIX; ext <<>> for path.basename(p).  The
\* extension is taken off the last segment where that ends with it and is
\* longer; a path that is the extension itself has the empty base name.
basename(p, ext) ==
  IF ext # <<>> /\ ext = p
    THEN <<>>
    ELSE IF /\ ext # <<>>
            /\ Len(LastSegment(p)) > Len(ext)
            /\ SubSeq(LastSegment(p), Len(LastSegment(p)) - Len(ext) + 1,
                      Len(LastSegment(p))) = ext
      THEN SubSeq(LastSegment(p), 1, Len(LastSegment(p)) - Len(ext))
      ELSE LastSegment(p)

\* path.extname(p) on POSIX: from the last "." of the last segment, unless
\* that is its first character or the segment is "..".
extname(p) ==
  IF LastIndexOf(LastSegment(p), ".") <= 1 \/ LastSegment(p) = <<".", ".">>
    THEN <<>>
    ELSE SubSeq(LastSegment(p), LastIndexOf(LastSegment(p), "."),
                Len(LastSegment(p)))

\* The segments of a path between its separators.
RECURSIVE PathSegments(_)
PathSegments(p) ==
  IF \E i \in DOMAIN p : p[i] = "/"
    THEN LET i == CHOOSE k \in DOMAIN p :
                    p[k] = "/" /\ \A j \in 1..(k - 1) : p[j] # "/"
         IN  <<SubSeq(p, 1, i - 1)>> \o PathSegments(SubSeq(p, i + 1, Len(p)))
    ELSE <<p>>

\* The segments that remain of a path: an empty segment and "." are dropped,
\* ".." removes the segment before it, and is kept where there is none to
\* remove and the path is relative.
RECURSIVE NormalizeSegments(_, _, _)
NormalizeSegments(segs, res, allowAboveRoot) ==
  IF segs = <<>>
    THEN res
    ELSE NormalizeSegments(
           Tail(segs),
           IF Head(segs) = <<>> \/ Head(segs) = <<".">>
             THEN res
             ELSE IF Head(segs) = <<".", ".">>
               THEN IF res # <<>> /\ res[Len(res)] # <<".", ".">>
                      THEN SubSeq(res, 1, Len(res) - 1)
                      ELSE IF allowAboveRoot THEN Append(res, Head(segs)) ELSE res
               ELSE Append(res, Head(segs)),
           allowAboveRoot)

\* The segments with a separator between them.
RECURSIVE JoinSegments(_)
JoinSegments(segs) ==
  IF segs = <<>>
    THEN <<>>
    ELSE IF Len(segs) = 1
      THEN Head(segs)
      ELSE Head(segs) \o <<"/">> \o JoinSegments(Tail(segs))

\* path.normalize(p) on POSIX.
PathNormalize(p) ==
  IF p = <<>>
    THEN <<".">>
    ELSE LET body == JoinSegments(NormalizeSegments(PathSegments(p), <<>>, p[1] # "/"))
         IN  IF body = <<>>
               THEN IF p[1] = "/"
                      THEN <<"/">>
                      ELSE IF p[Len(p)] = "/" THEN <<".", "/">> ELSE <<".">>
               ELSE (IF p[1] = "/" THEN <<"/">> ELSE <<>>) \o body
                      \o (IF p[Len(p)] = "/" THEN <<"/">> ELSE <<>>)

\* path.join(a, b) on POSIX.
PathJoin(a, b) ==
  PathNormalize(IF a = <<>> THEN b ELSE IF b = <<>> THEN a ELSE a \o <<"/">> \o b)

\* path.join(outDir, `${baseName}.json`) for the input path.
OutputFilePath(filePath) ==
  PathJoin(outDir, basename(filePath, extname(filePath)) \o <<".", "j", "s", "o", "n">>)

(***************************************************************************)
(* prepare.js: the question filter and JSON.stringify                      *)
(***************************************************************************)
\* a === b for numbers, strings, null and undefined.
StrictEquals(a, b) == a.t # "nan" /\ a = b

\* report.questions.filter((q) => q.question_number === questionNumber)
KeepQuestions(questions, n) ==
  SelectSeq(questions, LAMBDA q : StrictEquals(q.question_number, n))

\* A variant of FilterReports without the .filter on the reports.
FilterReportsKeepEmpty(reports, n) ==
  [i \in DOMAIN reports |->
     [reports[i] EXCEPT !.questions = KeepQuestions(@, n)]]

\* json.reports.map(...).filter((report) => report.questions.length > 0)
FilterReports(reports, n) ==
  SelectSeq([i \in DOMAIN reports |->
               [reports[i] EXCEPT !.questions = KeepQuestions(@, n)]],
            LAMBDA report : Len(report.questions) > 0)

\* if (questionNumber !== null) json.reports = ...
FilterDocument(json, n) ==
  IF n # Null THEN [json EXCEPT !.reports = FilterReports(@, n)] ELSE json

\* JSON.stringify, as the value the text denotes: an object is the sequence
\* of its members, a member whose value is undefined or a function is left
\* out, NaN is written as null.
JsonMember(key, v) ==
  IF v.t \in {"undef", "fn"}
    THEN <<>>
    ELSE << [k |-> key, v |-> IF v.t = "nan" THEN Null ELSE v] >>

\* An element of an array: undefined, an empty slot, a function and NaN are
\* written as null.
JsonElement(v) == IF v.t \in {"undef", "hole", "fn", "nan"} THEN Null ELSE v

\* A member that is an array of strings, numbers, null and undefined.
JsonArray(key, array) ==
  << [k |-> key, v |-> [i \in DOMAIN array |-> JsonElement(array[i])]] >>

\* A member that is an array of objects, each written as its members.
JsonObjects(key, objects) == << [k |-> key, v |-> objects] >>

StringifyResponse(r) ==
  JsonMember("respondent", r.respondent) \o JsonMember("score", r.score)
    \o JsonMember("comment", r.comment)
    \o JsonMember("skip_reason", r.skip_reason)
    \o JsonMember("response", r.response)

StringifyQuestion(q) ==
  JsonMember("question_number", q.question_number)
    \o JsonMember("question_text", q.question_text)
    \o JsonObjects("responses",
                   [i \in DOMAIN q.responses |-> StringifyResponse(q.responses[i])])
    \o JsonMember("sub_question_text", q.sub_question_text)

StringifyReport(r) ==
  JsonMember("report_name", Str(r.report_name))
    \o JsonObjects("questions",
                   [i \in DOMAIN r.questions |-> StringifyQuestion(r.questions[i])])

StringifyRespondee(r) ==
  JsonMember("name", r.name) \o JsonMember("position", r.position)

\* JSON.stringify(json, null, 2)
Stringify(json) ==
  JsonMember("client_name", json.client_name)
    \o JsonMember("created_date", json.created_date)
    \o JsonObjects("reports",
                   [i \in DOMAIN json.reports |-> StringifyReport(json.reports[i])])
    \o JsonObjects("respondees",
                   [i \in DOMAIN json.respondees |->
                      StringifyRespondee(json.respondees[i])])
    \o (IF json.hasUnmatchedHeaders
          THEN JsonArray("unmatchedHeaders", json.unmatchedHeaders)
          ELSE <<>>)

(***************************************************************************)
(* prepare.js: the batch loop                                              *)
(***************************************************************************)
\* The most input paths.
MaxFiles == 2

\* An input path with what the file system holds at it when its iteration
\* runs: a directory, nothing, or a file, on which processLocalExcelFile
\* returns a document or throws, and whether writeFileSync throws on its
\* output path.  A path given twice may hold something else the second
\* time: the file system changes between the iterations, by the writes of
\* the loop itself when an input path is its own output path.
File(path, kind, outcome, writeFails) ==
  [path |-> path, kind |-> kind, outcome |-> outcome, writeFails |-> writeFails]

\* An error thrown in the try block propagates out of the loop.
AfterRethrow(i, n) == n

\* catch (err) { ... } finally { ... }: the error is logged and the loop
\* goes on with the next path.
AfterCatch(i, n) == i + 1

\* prepare.js has parsed its arguments, which leave --question and --outdir
\* at their defaults or set them and give the input paths, none included;
\* the file system holds some default data directory and output directory.
InitPrepare(paths, outcomes, filters, outDirs, fileSystems) ==
  /\ pc = "args"
  /\ timeZone = 0
  /\ questionNumber \in filters
  /\ outDir \in outDirs
  /\ fileSystem \in fileSystems
  /\ filePaths \in ArraysOf({File(p, o.kind, o.outcome, o.writeFails) :
                               p \in paths, o \in outcomes},
                            MaxFiles)
  /\ fileIndex = 0
  /\ written = <<>>
  /\ progress = 0
  /\ spreadsheets = <<>>
  /\ summary = <<>>
  /\ calls = <<>>
  /\ sheetCount = 0
  /\ detailsRows = <<>>
  /\ client_name = EmptyStr
  /\ created_date = EmptyStr
  /\ sheets = <<>>
  /\ headers = <<>>
  /\ lastQuestionNumber = Null
  /\ lastQuestionText = EmptyStr
  /\ lastSubQuestionText = EmptyStr
  /\ questionMap = <<>>
  /\ reportMap = <<>>
  /\ respondeeMap = <<>>
  /\ result = NoDocument
  /\ error = ""

\* const dataDir = "data/reports"
DataDir == <<"d","a","t","a","/","r","e","p","o","r","t","s">>

\* filePath.endsWith(suffix)
EndsWith(filePath, suffix) ==
  /\ Len(suffix) <= Len(filePath)
  /\ SubSeq(filePath, Len(filePath) - Len(suffix) + 1, Len(filePath)) = suffix

\* stat.isFile() && (filePath.endsWith(".xlsx") || filePath.endsWith(".xls")
\* || filePath.endsWith(".csv"))
IsCompatible(file) ==
  /\ file.kind = "file"
  /\ \/ EndsWith(file.path, <<".", "x", "l", "s", "x">>)
     \/ EndsWith(file.path, <<".", "x", "l", "s">>)
     \/ EndsWith(file.path, <<".", "c", "s", "v">>)

\* allFiles.map((file) => path.join(dataDir, file)).filter(...): the entries
\* of the data directory under their joined paths, the compatible files kept
\* in the order readdirSync gives.
ListedFiles(entries) ==
  SelectSeq([i \in DOMAIN entries |->
               [entries[i] EXCEPT !.path = PathJoin(DataDir, @)]],
            IsCompatible)

\* Reading the data directory throws: readdirSync on a directory that cannot
\* be read, or statSync in the filter on an entry that names nothing (a link
\* to nowhere).
ListingThrows(dir) ==
  \/ dir.kind = "unreadable"
  \/ \E i \in DOMAIN dir.entries : dir.entries[i].kind = "missing"

\* The top level of the script after the argument parsing.  Without input
\* paths the compatible files of data/reports become the input paths; the
\* process exits with code 1 when data/reports is missing or is no directory
\* or when reading it throws.  With no input path left the process exits
\* with code 0.  Otherwise main is called.
DefaultFiles ==
  /\ pc = "args"
  /\ LET dir == fileSystem.dataDir
     IN  IF filePaths # <<>>
           THEN pc' = "main" /\ UNCHANGED filePaths
           ELSE IF dir.kind \in {"missing", "file"} \/ ListingThrows(dir)
             THEN pc' = "exit1" /\ UNCHANGED filePaths
             ELSE /\ filePaths' = ListedFiles(dir.entries)
                  /\ pc' = IF ListedFiles(dir.entries) = <<>>
                             THEN "exit0"
                             ELSE "main"
  /\ UNCHANGED << timeZone, outDir, fileSystem, questionNumber, fileIndex,
                  written, progress, spreadsheets, summary, calls, sheetCount,
                  detailsRows, client_name, created_date, sheets, headers,
                  lastQuestionNumber, lastQuestionText, lastSubQuestionText,
                  questionMap, reportMap, respondeeMap, result, error >>

\* The start of main: the output directory is created when nothing exists
\* at its path, and the process exits with code 1 when mkdirSync throws;
\* then the progress bar starts at 0 and the loop begins.
MakeOutDir ==
  /\ pc = "main"
  /\ IF fileSystem.outDir = "blocked"
       THEN pc' = "exit1" /\ UNCHANGED fileSystem
       ELSE /\ pc' = "loop"
            /\ fileSystem' = [fileSystem EXCEPT !.outDir = "exists"]
  /\ UNCHANGED << timeZone, outDir, questionNumber, filePaths, fileIndex,
                  written, progress, spreadsheets, summary, calls, sheetCount,
                  detailsRows, client_name, created_date, sheets, headers,
                  lastQuestionNumber, lastQuestionText, lastSubQuestionText,
                  questionMap, reportMap, respondeeMap, result, error >>

\* An iteration of the loop over filePaths up to the await: a directory is
\* counted and skipped (continue runs the finally block, which counts it
\* again), a path statSync throws on goes to the catch block, and for a file
\* the iteration waits for processLocalExcelFile.
ProcessFile ==
  /\ pc = "loop"
  /\ fileIndex < Len(filePaths)
  /\ LET file == filePaths[fileIndex + 1]
     IN  CASE file.kind = "directory" ->
                /\ progress' = progress + 2
                /\ fileIndex' = fileIndex + 1
                /\ UNCHANGED << pc, error >>
           [] file.kind = "missing" ->
                /\ progress' = progress + 1
                /\ fileIndex' = AfterCatch(fileIndex, Len(filePaths))
                /\ error' = "Error processing"
                /\ UNCHANGED pc
           [] OTHER ->
                /\ pc' = "await"
                /\ UNCHANGED << progress, fileIndex, error >>
  /\ UNCHANGED << timeZone, outDir, fileSystem, questionNumber, filePaths, written, spreadsheets, summary,
                  calls, sheetCount, detailsRows, client_name, created_date,
                  sheets, headers, lastQuestionNumber, lastQuestionText,
                  lastSubQuestionText, questionMap, reportMap, respondeeMap,
                  result >>

\* The rest of the iteration, when processLocalExcelFile has settled: a
\* rejection goes to the catch block; a document is filtered, stringified
\* and written, and a failing write is caught and logged on its own.  The
\* finally block counts the path.
WriteFile ==
  /\ pc = "await"
  /\ LET file == filePaths[fileIndex + 1]
         json == FilterDocument(file.outcome.value, questionNumber)
     IN  IF file.outcome.threw
           THEN /\ fileIndex' = AfterCatch(fileIndex, Len(filePaths))
                /\ error' = "Error processing"
                /\ UNCHANGED written
           ELSE /\ fileIndex' = fileIndex + 1
                /\ IF file.writeFails
                     THEN /\ error' = "Error writing"
                          /\ UNCHANGED written
                     ELSE /\ written' = Append(written,
                                               [ path |-> OutputFilePath(file.path),
                                                 data |-> Stringify(json) ])
                          /\ UNCHANGED error
  /\ progress' = progress + 1
  /\ pc' = "loop"
  /\ UNCHANGED << timeZone, outDir, fileSystem, questionNumber, filePaths, spreadsheets, summary, calls,
                  sheetCount, detailsRows, client_name, created_date, sheets,
                  headers, lastQuestionNumber, lastQuestionText,
                  lastSubQuestionText, questionMap, reportMap, respondeeMap,
                  result >>

\* After the loop: progressBar.stop() and the report of unmatched headers.
EndLoop ==
  /\ pc = "loop"
  /\ fileIndex = Len(filePaths)
  /\ pc' = "done"
  /\ UNCHANGED << timeZone, outDir, fileSystem, questionNumber, filePaths, fileIndex, written, progress,
                  spreadsheets, summary, calls, sheetCount, detailsRows,
                  client_name, created_date, sheets, headers,
                  lastQuestionNumber, lastQuestionText, lastSubQuestionText,
                  questionMap, reportMap, respondeeMap, result, error >>

(***************************************************************************)
(* The documents handed to the compile functions                           *)
(***************************************************************************)
\* The most documents in an array.
MaxDocuments == 2

\* A validated document with these respondee names and these reports.
MakeDocument(name, date, names, reports) ==
  [ client_name |-> name,
    created_date |-> date,
    reports |-> reports,
    respondees |-> [i \in DOMAIN names |-> [name |-> names[i], position |-> Undef]],
    hasUnmatchedHeaders |-> FALSE,
    unmatchedHeaders |-> <<>> ]

\* Documents of two clients, of a client without name and of a client named
\* like an inherited property, of two years and of a date that is none, with
\* respondees in and out of alphabetical order.
CompanyDocuments ==
  { MakeDocument(name, date, names, <<>>) :
      name \in {V_Acme, V_Zed, EmptyStr, V_ConstructorName},
      date \in {V_Date, V_Date24, V_DateEte},
      names \in {<<>>, <<V_A, V_J>>, <<V_J, V_K>>, <<V_J, V_A>>} }

\* A question of a report, as the summary reads it.
MakeQuestion(text, subText) ==
  [ question_number |-> Null,
    question_text |-> text,
    sub_question_text |-> subText,
    responses |-> <<>> ]

\* The questions of one report: none, one, one with two sub-questions, two
\* questions, the same pair twice, a text that is an array index, an empty
\* text, and a text named like an inherited property.
QuestionLists ==
  { <<>>,
    <<MakeQuestion(V_A, Undef)>>,
    <<MakeQuestion(V_A, V_Sub), MakeQuestion(V_A, V_J)>>,
    <<MakeQuestion(V_K, V_Sub), MakeQuestion(V_A, Undef)>>,
    <<MakeQuestion(V_A, V_Sub), MakeQuestion(V_A, V_Sub)>>,
    <<MakeQuestion(V_A, Undef), MakeQuestion(V_One, Undef)>>,
    <<MakeQuestion(EmptyStr, V_Sub)>>,
    <<MakeQuestion(V_ConstructorName, Undef)>> }

\* Documents of one client, of two years and of a date that is none, with one report.
QuestionDocuments ==
  { MakeDocument(V_Acme, date, <<>>,
                 << [report_name |-> <<"a", " ", "B">>, questions |-> qs] >>) :
      date \in {V_Date24, V_Date, V_DateEte}, qs \in QuestionLists }

\* A question with a number and with one response.
NumberedQuestion(n, text, subText) ==
  [ question_number |-> n,
    question_text |-> text,
    sub_question_text |-> subText,
    responses |-> << [ respondent |-> V_J, score |-> Num(4), comment |-> Undef,
                       skip_reason |-> Undef, response |-> Undef ] >> ]

\* What processLocalExcelFile returns: a document of two reports with
\* questions 1 and 2, a document whose only question has no number, and a
\* document without reports and with two unmatched headers, one of them the
\* undefined of a header cell the sheet does not have.
ParsedDocuments ==
  { MakeDocument(V_Acme, V_Date, <<V_J>>,
                 << [ report_name |-> <<"a", " ", "B">>,
                      questions |-> << NumberedQuestion(Num(1), V_A, Undef),
                                       NumberedQuestion(Num(2), V_K, Undef),
                                       NumberedQuestion(Num(1), V_A, V_Sub) >> ],
                    [ report_name |-> <<"c">>,
                      questions |-> << NumberedQuestion(Num(2), V_K, Undef) >> ] >>),
    MakeDocument(V_Acme, V_Date24, <<V_J>>,
                 << [ report_name |-> <<"a", " ", "B">>,
                      questions |-> << NumberedQuestion(Null, V_A, Undef) >> ] >>),
    [ MakeDocument(V_Acme, V_Date, <<>>, <<>>) EXCEPT
        !.hasUnmatchedHeaders = TRUE, !.unmatchedHeaders = <<Undef, H_Notes>> ] }

\* What an input path leads to.
FileOutcomes ==
  { [kind |-> "directory", outcome |-> Thrown, writeFails |-> FALSE],
    [kind |-> "missing", outcome |-> Thrown, writeFails |-> FALSE],
    [kind |-> "file", outcome |-> Thrown, writeFails |-> FALSE] }
    \cup { [kind |-> "file", outcome |-> Returned(d), writeFails |-> w] :
             d \in {x \in ParsedDocuments : SpreadsheetSchema(x)}, w \in BOOLEAN }

\* Input paths; the first two have the same base name without extension, and
\* the second is its own output path when the output directory is a.
InputPaths ==
  { <<"a","/","x",".","x","l","s","x">>, <<"a","/","x",".","j","s","o","n">>,
    <<"y">> }

\* Output directories: the default, and the one --outdir ./a sets.
OutDirs == { DefaultOutDir, <<".", "/", "a">> }

\* The document of the workbooks of the data directory.
ListedDocument ==
  MakeDocument(V_Zed, V_Date24, <<V_K>>,
               << [ report_name |-> <<"c">>,
                    questions |-> << NumberedQuestion(Num(1), V_A, Undef) >> ] >>)

\* Entries of the data directory, as readdirSync names them: a workbook, a
\* text file, a CSV file that does not parse, a directory named like a
\* workbook, a link to nowhere, and a workbook whose output cannot be
\* written.
E_Workbook ==
  File(<<"a",".","x","l","s","x">>, "file", Returned(ListedDocument), FALSE)

E_Text == File(<<"b",".","t","x","t">>, "file", Thrown, FALSE)

E_Csv == File(<<"c",".","c","s","v">>, "file", Thrown, FALSE)

E_Directory == File(<<"s","u","b",".","x","l","s","x">>, "directory", Thrown, FALSE)

E_Link == File(<<"g","o","n","e",".","x","l","s">>, "missing", Thrown, FALSE)

E_Old == File(<<"o","l","d",".","x","l","s">>, "file", Returned(ListedDocument), TRUE)

\* What the file system holds at data/reports: nothing, a file, a directory
\* that cannot be read, or a directory with its entries.
DataDirs ==
  { [kind |-> "missing", entries |-> <<>>],
    [kind |-> "file", entries |-> <<>>],
    [kind |-> "unreadable", entries |-> <<>>],
    [kind |-> "directory", entries |-> <<>>],
    [kind |-> "directory", entries |-> <<E_Workbook, E_Text, E_Csv, E_Directory>>],
    [kind |-> "directory", entries |-> <<E_Text, E_Directory>>],
    [kind |-> "directory", entries |-> <<E_Workbook, E_Link>>],
    [kind |-> "directory", entries |-> <<E_Old, E_Workbook>>] }

\* The file systems explored.  At the output directory there is something
\* (existsSync is true), nothing where mkdirSync succeeds, or nothing where
\* mkdirSync throws, as below a regular file.
FileSystems ==
  { [dataDir |-> d, outDir |-> o] :
      d \in DataDirs, o \in {"exists", "absent", "blocked"} }

(***************************************************************************)
(* Specifications                                                          *)
(***************************************************************************)
\* Whole workbooks: typed details, data sheets under any names, some of them
\* without data rows.
Init == InitCall(0..(MaxDataSheets + 1))

Next ==
  \/ ReadDetails(TypedDetails)
  \/ \E i \in 2..Len(SheetNames) :
       \/ SkipSheet(SheetNames[i], <<>>)
       \/ SkipSheet(SheetNames[i], <<L_Names.header>>)
       \/ RowsRead < MaxRows /\ BeginSheet(SheetNames[i], L_Names.header)
  \/ /\ RowsRead < MaxRows
     /\ \E row \in RowsOf(L_Names.header) : ProcessRow(row)
  \/ EndSheet
  \/ Finish

Spec == Init /\ [][Next]_vars

\* Details sheets of up to MaxDetailsRows rows.
InitDetails == InitCallIn(0..2, TimeZones)

NextDetails ==
  \/ CheckSheetCount
  \/ /\ Len(detailsRows) < MaxDetailsRows
     /\ \E row \in DetailsRowsOf : ReadDetailsRow(row)
  \/ CheckDetails
  \/ ReadSheets({L_One})

SpecDetails == InitDetails /\ [][NextDetails]_vars

\* Question blocks: the carry-forward of number, text and sub-question.
InitCarry == InitCall(0..2)

NextCarry ==
  \/ ReadDetails(GoodDetails)
  \/ ReadSheets(CarryLayouts)

SpecCarry == InitCarry /\ [][NextCarry]_vars

\* Question numbers: the number column before and after the question text
\* column.
InitNumbers == InitCall(0..2)

NextNumbers ==
  \/ ReadDetails(GoodDetails)
  \/ ReadSheets(NumberLayouts)

SpecNumbers == InitNumbers /\ [][NextNumbers]_vars

\* Sub-questions: two values, the sub-question column after and before the
\* question text column.
InitSubs == InitCall(0..2)

NextSubs ==
  \/ ReadDetails(GoodDetails)
  \/ ReadSheets(SubsLayouts)

SpecSubs == InitSubs /\ [][NextSubs]_vars

\* Texts with the '|' character.
InitPipes == InitCall(0..2)

NextPipes ==
  \/ ReadDetails(GoodDetails)
  \/ ReadSheets({L_Pipes})

SpecPipes == InitPipes /\ [][NextPipes]_vars

\* Strings and numbers in the cells of the score, comment and respondent
\* columns.
InitCells == InitCall(0..2)

NextCells ==
  \/ ReadDetails(GoodDetails)
  \/ ReadSheets(CellLayouts)

SpecCells == InitCells /\ [][NextCells]_vars

\* Question blocks over two data sheets.
InitBlocks == InitCall(0..3)

NextBlocks ==
  \/ ReadDetails(GoodDetails)
  \/ ReadSheets({L_Block})

SpecBlocks == InitBlocks /\ [][NextBlocks]_vars

\* Respondents with positions and remarks, over two data sheets.
InitRespondees == InitCall(0..3)

NextRespondees ==
  \/ ReadDetails(GoodDetails)
  \/ ReadSheets(RespondeeLayouts)

SpecRespondees == InitRespondees /\ [][NextRespondees]_vars

\* The overloaded score column.
InitScore == InitCall(0..2)

NextScore ==
  \/ ReadDetails(GoodDetails)
  \/ ReadSheets({L_Score})

SpecScore == InitScore /\ [][NextScore]_vars

\* Two columns mapped to the overloaded score field.
InitTwoScores == InitCall(0..2)

NextTwoScores ==
  \/ ReadDetails(GoodDetails)
  \/ ReadSheets({L_TwoScores})

SpecTwoScores == InitTwoScores /\ [][NextTwoScores]_vars

\* Header rows: two data sheets, with or without data rows.
InitHeaders == InitCall(0..3)

NextHeaders ==
  \/ ReadDetails(GoodDetails)
  \/ ReadSheets(HeaderLayouts)

SpecHeaders == InitHeaders /\ [][NextHeaders]_vars

\* compileCompaniesSummary on every array of at most MaxDocuments documents.
InitCompanies == InitCompile(ArraysOf(CompanyDocuments, MaxDocuments))

NextCompanies == CallCompileCompanies

SpecCompanies == InitCompanies /\ [][NextCompanies]_vars

\* compileQuestionsSummary on every array of at most MaxDocuments documents.
InitQuestions == InitCompile(ArraysOf(QuestionDocuments, MaxDocuments))

NextQuestions == CallCompileQuestions

SpecQuestions == InitQuestions /\ [][NextQuestions]_vars

\* The arrays a caller of SpecCalls compiles: one document, two of
\* different years, and two of which the first has a date that is none.
CallArrays ==
  { << MakeDocument(V_Acme, V_Date, <<V_J>>,
                    << [report_name |-> <<"a", " ", "B">>,
                        questions |-> <<MakeQuestion(V_A, V_Sub)>>] >>) >>,
    << MakeDocument(V_Acme, V_Date24, <<V_K>>,
                    << [report_name |-> <<"a", " ", "B">>,
                        questions |-> <<MakeQuestion(V_A, Undef)>>] >>),
       MakeDocument(V_Acme, V_Date, <<V_J>>,
                    << [report_name |-> <<"a", " ", "B">>,
                        questions |-> <<MakeQuestion(V_A, V_Sub)>>] >>) >>,
    << MakeDocument(V_Acme, V_DateEte, <<V_K>>,
                    << [report_name |-> <<"a", " ", "B">>,
                        questions |-> <<MakeQuestion(V_A, V_Sub)>>] >>),
       MakeDocument(V_Acme, V_Date, <<V_J>>,
                    << [report_name |-> <<"a", " ", "B">>,
                        questions |-> <<MakeQuestion(V_A, V_Sub)>>] >>) >> }

\* A caller that makes up to MaxCalls calls of the three functions, in any
\* order: parseSpreadsheetBuffer on a workbook with too few sheets or with one
\* data sheet of one data row, the compile functions on an array of CallArrays.
InitSeq == InitCalls

NextSeq ==
  \/ StartParse(1..2)
  \/ StartCompile("compileCompaniesSummary", CallArrays)
  \/ StartCompile("compileQuestionsSummary", CallArrays)
  \/ ReadDetails(GoodDetails)
  \/ \E L \in {L_Names} : BeginSheet(SheetNames[Len(sheets) + 2], L.header)
  \/ /\ pc = "rows"
     /\ Current.outs = <<>>
     /\ \E row \in RowsOf(Current.rows[1]) : ProcessRow(row)
  \/ EndSheet
  \/ Finish
  \/ Calling("compileCompaniesSummary") /\ CallCompileCompanies
  \/ Calling("compileQuestionsSummary") /\ CallCompileQuestions
  \/ Return

SpecCalls == InitSeq /\ [][NextSeq]_vars

\* prepare.js on up to MaxFiles input paths, without a question filter and
\* with the filters 1 and 2.  The data directory is read only without input
\* paths: with input paths the file systems explored have none.
InitBatch ==
  /\ InitPrepare(InputPaths, FileOutcomes, {Null, Num(1), Num(2)}, OutDirs,
                 FileSystems)
  /\ filePaths # <<>> => fileSystem.dataDir = NoFileSystem.dataDir

NextBatch == DefaultFiles \/ MakeOutDir \/ ProcessFile \/ WriteFile \/ EndLoop

SpecPrepare == InitBatch /\ [][NextBatch]_vars

(***************************************************************************)
(* Reading the workbook back: what the claims say about the input          *)
(***************************************************************************)
\* The mapped header row of a data sheet that has one.
Hdrs(sh) == MapHeaders(sh.rows[1])

\* The i-th data row of a sheet (the header row is rows[1]).
DataRow(sh, i) == sh.rows[i + 1]

ColumnsOf(hdrs, field) == {c \in DOMAIN hdrs : hdrs[c] = field}

\* Every column of the field holds a value in this row, and there is one.
FieldPopulated(hdrs, row, field) ==
  /\ ColumnsOf(hdrs, field) # {}
  /\ \A c \in ColumnsOf(hdrs, field) : Truthy(Cell(row, c))

\* No column of the field holds a value in this row.
FieldBlank(hdrs, row, field) ==
  \A c \in ColumnsOf(hdrs, field) : ~Truthy(Cell(row, c))

\* The cell of the last column of the field (Undef without such a column).
LastCell(hdrs, row, field) ==
  LET cols == ColumnsOf(hdrs, field)
  IN  IF cols = {}
        THEN Undef
        ELSE Cell(row, CHOOSE c \in cols : \A d \in cols : d <= c)

\* The row's respondent is non-empty after trimming.
RowAccepted(hdrs, row) ==
  LET v == LastCell(hdrs, row, F_respondent)
  IN  Truthy(v) /\ Trim(ToChars(v)) # <<>>

\* The data rows of a sheet that are accepted, as indices.
AcceptedIn(sh) ==
  {i \in DOMAIN sh.outs : RowAccepted(Hdrs(sh), DataRow(sh, i))}

\* The Responses of a sequence of Questions.
ResponseCount(questions) ==
  LET s[i \in 0..Len(questions)] ==
        IF i = 0 THEN 0 ELSE s[i - 1] + Len(questions[i].responses)
  IN  s[Len(questions)]

\* The Responses of a sequence of Reports.
ReportResponseCount(reports) ==
  LET s[i \in 0..Len(reports)] ==
        IF i = 0 THEN 0 ELSE s[i - 1] + ResponseCount(reports[i].questions)
  IN  s[Len(reports)]

\* The accepted rows of a sequence of data sheets.
AcceptedCount(shs) ==
  LET s[i \in 0..Len(shs)] ==
        IF i = 0 THEN 0 ELSE s[i - 1] + Cardinality(AcceptedIn(shs[i]))
  IN  s[Len(shs)]

(***************************************************************************)
(* C1.  A block of k >= 2 consecutive accepted data rows, of which only    *)
(* the first has the question-number and question-text cells populated,    *)
(* yields exactly one Question holding k Responses, one per row.           *)
(***************************************************************************)
IsCarryBlock(sh) ==
  LET h == Hdrs(sh)
      k == Len(sh.outs)
  IN  /\ k >= 2
      /\ FieldPopulated(h, DataRow(sh, 1), F_question_number)
      /\ FieldPopulated(h, DataRow(sh, 1), F_question_text)
      /\ \A i \in 2..k :
           /\ FieldBlank(h, DataRow(sh, i), F_question_number)
           /\ FieldBlank(h, DataRow(sh, i), F_question_text)
      /\ \A i \in 1..k :
           /\ RowAccepted(h, DataRow(sh, i))
           /\ FieldBlank(h, DataRow(sh, i), F_sub_question_text)

C1_CarryForwardBlock ==
  (pc = "rows" /\ IsCarryBlock(Current)) =>
    /\ Len(questionMap) = 1
    /\ Len(questionMap[1].v.responses) = Len(Current.outs)

(***************************************************************************)
(* C2.  The Responses of the report's Questions are as many as the         *)
(* accepted rows: every accepted row appends one Response and no Response  *)
(* is removed or replaced.                                                 *)
(***************************************************************************)
C2_OneResponsePerAcceptedRow ==
  /\ pc = "rows" =>
       ResponseCount(MapValues(questionMap)) = Cardinality(AcceptedIn(Current))
  /\ pc = "returned" =>
       ReportResponseCount(result.reports) = AcceptedCount(sheets)

(***************************************************************************)
(* C3.  In every returned document the reports appear in data-sheet order, *)
(* the Questions of a report in the order of the first accepted row that   *)
(* introduced each grouping key, and the Responses of a Question in the    *)
(* order of the rows that produced them.                                   *)
(***************************************************************************)
RECURSIVE IsSubseq(_, _)
IsSubseq(a, b) ==
  IF a = <<>>
    THEN TRUE
    ELSE IF b = <<>>
      THEN FALSE
      ELSE IF Head(a) = Head(b)
        THEN IsSubseq(Tail(a), Tail(b))
        ELSE IsSubseq(a, Tail(b))

\* The members of a sequence in first-seen order, each once.
RECURSIVE FirstSeen(_, _)
FirstSeen(seq, acc) ==
  IF seq = <<>> THEN acc ELSE FirstSeen(Tail(seq), SetAdd(acc, Head(seq)))

\* The reports of the data sheets that have data rows, in sheet order.
RECURSIVE DataSheetReports(_)
DataSheetReports(shs) ==
  IF shs = <<>>
    THEN <<>>
    ELSE IF Len(Head(shs).outs) >= 1
      THEN <<SheetReport(Head(shs).name, Head(shs).outs)>> \o DataSheetReports(Tail(shs))
      ELSE DataSheetReports(Tail(shs))

\* The grouping keys of the accepted rows of a sheet, in row order.
RECURSIVE AcceptedKeys(_)
AcceptedKeys(outs) ==
  IF outs = <<>>
    THEN <<>>
    ELSE IF IsAccepted(Head(outs).respondent)
      THEN <<qKey(Head(outs))>> \o AcceptedKeys(Tail(outs))
      ELSE AcceptedKeys(Tail(outs))

\* The Responses of the accepted rows of a sheet with grouping key `key`, in
\* row order.
RECURSIVE KeyResponses(_, _)
KeyResponses(outs, key) ==
  IF outs = <<>>
    THEN <<>>
    ELSE IF IsAccepted(Head(outs).respondent) /\ qKey(Head(outs)) = key
      THEN <<ResponseObj(Head(outs))>> \o KeyResponses(Tail(outs), key)
      ELSE KeyResponses(Tail(outs), key)

ReportsInSheetOrder ==
  pc = "returned" => IsSubseq(result.reports, DataSheetReports(sheets))

QuestionsInFirstRowOrder ==
  pc = "rows" =>
    [i \in DOMAIN questionMap |-> questionMap[i].k]
      = FirstSeen(AcceptedKeys(Current.outs), <<>>)

ResponsesInRowOrder ==
  pc = "rows" =>
    \A i \in DOMAIN questionMap :
      IsSubseq(questionMap[i].v.responses,
               KeyResponses(Current.outs, questionMap[i].k))

C3_OrderPreserved ==
  /\ ReportsInSheetOrder
  /\ QuestionsInFirstRowOrder
  /\ ResponsesInRowOrder

(***************************************************************************)
(* C4.  respondees holds exactly one entry per distinct respondent name of *)
(* the accepted rows of all data sheets, in first-seen order; its position *)
(* is the position cell of the first accepted row with that name, whatever *)
(* the position cells of the later rows with that name.                    *)
(***************************************************************************)
\* The respondent and position cells of the accepted rows of one sheet with
\* the mapped headers h, in row order, from its i-th data row on.
RECURSIVE AcceptedCells(_, _, _)
AcceptedCells(h, sh, i) ==
  IF i > Len(sh.outs)
    THEN <<>>
    ELSE IF RowAccepted(h, DataRow(sh, i))
      THEN << [ name |-> LastCell(h, DataRow(sh, i), F_respondent),
                position |-> LastCell(h, DataRow(sh, i), F_position) ] >>
             \o AcceptedCells(h, sh, i + 1)
      ELSE AcceptedCells(h, sh, i + 1)

\* The same over a sequence of data sheets, in sheet order.
RECURSIVE AcceptedLog(_)
AcceptedLog(shs) ==
  IF shs = <<>>
    THEN <<>>
    ELSE LET h == Hdrs(Head(shs))
         IN  AcceptedCells(h, Head(shs), 1) \o AcceptedLog(Tail(shs))

\* The position cell of the first row of the log with this name.
FirstPosition(log, name) ==
  log[CHOOSE i \in DOMAIN log :
        log[i].name = name /\ \A j \in 1..(i - 1) : log[j].name # name].position

C4_RespondeesFirstSeen ==
  LET log == AcceptedLog(sheets)
      names == FirstSeen([i \in DOMAIN log |-> log[i].name], <<>>)
      respondees == MapValues(respondeeMap)
  IN  /\ [i \in DOMAIN respondees |-> respondees[i].name] = names
      /\ \A i \in DOMAIN respondees :
           LET cell == FirstPosition(log, respondees[i].name)
           IN  respondees[i].position = (IF Truthy(cell) THEN cell ELSE EmptyStr)

\* A returned document after two accepted rows with one name and two
\* different positions, in two data sheets.
C4_Witness ==
  /\ pc = "returned"
  /\ Len(sheets) = 2
  /\ \E i \in DOMAIN sheets[1].outs, j \in DOMAIN sheets[2].outs :
       /\ sheets[1].outs[i].respondent = V_J
       /\ sheets[2].outs[j].respondent = V_J
       /\ sheets[1].outs[i].position = V_CFO
       /\ sheets[2].outs[j].position = V_CEO
  /\ \E i \in DOMAIN result.respondees :
       result.respondees[i] = [name |-> V_J, position |-> V_CFO]

(***************************************************************************)
(* C5.  In a sheet with a single score-mapped column, the Response of an   *)
(* accepted row has an integer score and no response when the cell is      *)
(* non-empty and converts to a number, has the cell as response and no     *)
(* score when the cell is non-empty and does not convert, and has neither  *)
(* when the cell is empty.                                                  *)
(***************************************************************************)
\* The Response pushed by the last data row read in the current sheet.
LastResponse ==
  LET responses == MapGet(questionMap, qKey(Current.outs[Len(Current.outs)])).responses
  IN  responses[Len(responses)]

\* The score cell of the last data row read in the current sheet.
LastScoreCell ==
  LastCell(Hdrs(Current), DataRow(Current, Len(Current.outs)), F_score)

\* The last data row read exists, is accepted, and its sheet has one score
\* column.
LastRowScored ==
  /\ pc = "rows"
  /\ Len(Current.outs) >= 1
  /\ Cardinality(ColumnsOf(Hdrs(Current), F_score)) = 1
  /\ Len(Current.outs) \in AcceptedIn(Current)

C5_ScoreOrResponse ==
  LastRowScored =>
    /\ (IsPresent(LastScoreCell) /\ ~NumberIsNaN(LastScoreCell)) =>
         /\ LastResponse.score.t = "num"
         /\ LastResponse.score.n \in Int
         /\ LastResponse.response = Undef
    /\ LastScoreCell = V_Four => LastResponse.score = Num(4)
    /\ LastScoreCell = V_Hex => LastResponse.score = Num(16)
    /\ LastScoreCell = V_Infinity => LastResponse.score = Num(0)
    /\ (IsPresent(LastScoreCell) /\ NumberIsNaN(LastScoreCell)) =>
         /\ LastResponse.response = LastScoreCell
         /\ LastResponse.score = Undef
    /\ ~IsPresent(LastScoreCell) =>
         /\ LastResponse.score = Undef
         /\ LastResponse.response = Undef

\* Three accepted rows with the cells "4", empty and "N/A"; the last one has
\* just been read and its Response carries the text.
C5_Witness ==
  /\ LastRowScored
  /\ Len(Current.outs) = 3
  /\ AcceptedIn(Current) = {1, 2, 3}
  /\ LastCell(Hdrs(Current), DataRow(Current, 1), F_score) = V_Four
  /\ LastCell(Hdrs(Current), DataRow(Current, 2), F_score) = EmptyStr
  /\ LastScoreCell = V_NA
  /\ LastResponse.response = V_NA

(***************************************************************************)
(* C6.  A row whose cleaned question text differs from lastQuestionText    *)
(* and whose sub-question cell is empty or absent gets the empty           *)
(* sub-question and leaves lastSubQuestionText empty, and so do the rows   *)
(* after it for as long as their sub-question cells are empty, whether the *)
(* sub-question column comes before or after the question text column.     *)
(***************************************************************************)
\* lastQuestionText as the i-th data row of the sheet finds it.
TextBefore(sh, i) ==
  IF i = 1 THEN EmptyStr ELSE sh.outs[i - 1].lastQuestionText

\* The i-th data row of the sheet with the mapped headers h is a new-question
\* boundary.
IsBoundary(h, sh, i) ==
  LET value == LastCell(h, DataRow(sh, i), F_question_text)
  IN  /\ Cardinality(ColumnsOf(h, F_question_text)) = 1
      /\ Truthy(value)
      /\ Str(CleanQuestionText(value)) # TextBefore(sh, i)

IsBoundaryRow(sh, i) == IsBoundary(Hdrs(sh), sh, i)

C6_BoundaryClearsSubQuestion ==
  pc = "rows" =>
    LET h == Hdrs(Current)
        n == Len(Current.outs)
        boundary == [i \in 1..n |-> IsBoundary(h, Current, i)]
        blank == [i \in 1..n |->
                    FieldBlank(h, DataRow(Current, i), F_sub_question_text)]
    IN  \A b \in 1..n : \A j \in b..n :
          (boundary[b] /\ \A i \in b..j : blank[i])
          => /\ Current.outs[j].sub_question_text = EmptyStr
             /\ Current.outs[j].lastSubQuestionText = EmptyStr
             /\ j = n => lastSubQuestionText = EmptyStr

\* A sub-question column before the question text column: a row sets the
\* sub-question "s" of question A, the next row opens question B with an
\* empty sub-question cell, and a third row follows in B's block.
C6_Witness ==
  /\ pc = "rows"
  /\ Len(Current.outs) = 3
  /\ Hdrs(Current) = <<F_sub_question_text, F_question_text, F_respondent>>
  /\ AcceptedIn(Current) = {1, 2, 3}
  /\ Current.outs[1].sub_question_text = V_Sub
  /\ Current.outs[1].question_text = V_A
  /\ IsBoundaryRow(Current, 2)
  /\ FieldBlank(Hdrs(Current), DataRow(Current, 2), F_sub_question_text)
  /\ FieldBlank(Hdrs(Current), DataRow(Current, 3), F_sub_question_text)
  /\ FieldBlank(Hdrs(Current), DataRow(Current, 3), F_question_text)
  /\ Current.outs[3].sub_question_text = EmptyStr

\* The same with the sub-question column after the question text column.
C6_WitnessSubLast ==
  /\ pc = "rows"
  /\ Len(Current.outs) = 3
  /\ Hdrs(Current) = <<F_question_text, F_sub_question_text, F_respondent>>
  /\ AcceptedIn(Current) = {1, 2, 3}
  /\ Current.outs[1].sub_question_text = V_Sub
  /\ IsBoundaryRow(Current, 2)
  /\ FieldBlank(Hdrs(Current), DataRow(Current, 2), F_sub_question_text)
  /\ FieldBlank(Hdrs(Current), DataRow(Current, 3), F_sub_question_text)
  /\ Current.outs[3].sub_question_text = EmptyStr

(***************************************************************************)
(* C7.  A data row whose respondent cell is empty or whitespace-only       *)
(* leaves the Questions, their Responses and the Respondees as they were,  *)
(* and ends its iteration with the locals and the carry-forward variables  *)
(* that the same row with a respondent would have produced.                *)
(***************************************************************************)
\* The row with the cell of every respondent column replaced by a name.
WithRespondent(hdrs, row) ==
  [c \in DOMAIN hdrs |-> IF hdrs[c] = F_respondent THEN V_J ELSE Cell(row, c)]

\* The data row this step has read.
RowRead == Current'.rows[Len(Current'.rows)]

\* This step is an iteration of the row loop for a row that is not accepted.
DropsRow ==
  /\ pc = "rows"
  /\ pc' = "rows"
  /\ Len(sheets') = Len(sheets)
  /\ Len(Current'.outs) = Len(Current.outs) + 1
  /\ ColumnsOf(headers, F_respondent) # {}
  /\ ~RowAccepted(headers, RowRead)

C7_DroppedRowKeepsCarry ==
  [][ DropsRow =>
        LET same == ParseRow(lastQuestionNumber, lastQuestionText,
                             lastSubQuestionText, headers,
                             WithRespondent(headers, RowRead))
            out == Current'.outs[Len(Current'.outs)]
        IN  /\ questionMap' = questionMap
            /\ respondeeMap' = respondeeMap
            /\ reportMap' = reportMap
            /\ [same EXCEPT !.respondent = out.respondent] = out
            /\ lastQuestionNumber' = same.lastQuestionNumber
            /\ lastQuestionText' = same.lastQuestionText
            /\ lastSubQuestionText' = same.lastSubQuestionText ]_vars

\* A row without respondent has opened question 1 "A"; the next row, with a
\* respondent and no question cells, is filed under that question.
C7_Witness ==
  /\ pc = "rows"
  /\ Len(Current.outs) = 2
  /\ AcceptedIn(Current) = {2}
  /\ IsBoundaryRow(Current, 1)
  /\ FieldPopulated(Hdrs(Current), DataRow(Current, 1), F_question_number)
  /\ FieldBlank(Hdrs(Current), DataRow(Current, 2), F_question_text)
  /\ FieldBlank(Hdrs(Current), DataRow(Current, 2), F_question_number)
  /\ Len(questionMap) = 1
  /\ questionMap[1].v.question_text = V_A
  /\ questionMap[1].v.question_number = Num(1)
  /\ Len(questionMap[1].v.responses) = 1
  /\ Len(respondeeMap) = 1

(***************************************************************************)
(* C8.  The call throws, returns no document and processes no data sheet   *)
(* when the workbook has fewer than 2 sheets, or when, all rows of the     *)
(* details sheet read, no "Client Name" row has set a non-empty            *)
(* client_name or no "Created" row has set a non-empty created_date.       *)
(***************************************************************************)
\* Some row of the details sheet has set a non-empty client_name.
SomeRowSetsClientName ==
  \E i \in DOMAIN detailsRows :
    /\ Len(detailsRows[i]) >= 2
    /\ detailsRows[i][1] = D_ClientName
    /\ Truthy(Cell(detailsRows[i], 2))

\* Some row of the details sheet has set a non-empty created_date.
SomeRowSetsCreatedDate ==
  \E i \in DOMAIN detailsRows :
    /\ Len(detailsRows[i]) >= 2
    /\ detailsRows[i][1] = D_Created
    /\ Truthy(formatDateToYMD(Cell(detailsRows[i], 2)))

\* No data sheet has been touched and there is no document.
NothingProcessed ==
  /\ sheets = <<>>
  /\ headers = <<>>
  /\ questionMap = <<>>
  /\ reportMap = <<>>
  /\ respondeeMap = <<>>
  /\ result = NoDocument

C8_FatalStructure ==
  /\ sheetCount < 2 =>
       /\ pc \in {"start", "threw"}
       /\ detailsRows = <<>>
       /\ NothingProcessed
  /\ ( /\ pc \notin {"start", "details"}
       /\ ~SomeRowSetsClientName \/ ~SomeRowSetsCreatedDate )
     => pc = "threw" /\ NothingProcessed

\* A two-sheet workbook whose details sheet has a "Created" row and a
\* "Client Name" row without a value has been rejected.
C8_Witness ==
  /\ pc = "threw"
  /\ sheetCount = 2
  /\ Len(detailsRows) = 2
  /\ SomeRowSetsCreatedDate
  /\ ~SomeRowSetsClientName
  /\ \E i \in DOMAIN detailsRows : detailsRows[i][1] = D_ClientName
  /\ created_date # EmptyStr

(***************************************************************************)
(* C9.  The call has either returned a document in which client_name and   *)
(* created_date are non-empty strings, every question_number is an integer *)
(* or null, every question_text is a string, every respondent is a         *)
(* non-empty string and every optional field has its declared type, or it  *)
(* has returned no document at all.                                        *)
(***************************************************************************)
NonEmptyString(v) == v.t = "str" /\ v.s # <<>>

StringOrAbsent(v) == v.t = "str" \/ v.t = "undef"

ResponseContract(r) ==
  /\ NonEmptyString(r.respondent)
  /\ r.score.t = "num" \/ r.score.t = "undef"
  /\ r.score.t = "num" => r.score.n \in Int
  /\ StringOrAbsent(r.comment)
  /\ StringOrAbsent(r.skip_reason)
  /\ StringOrAbsent(r.response)

QuestionContract(q) ==
  /\ q.question_number = Null
       \/ (q.question_number.t = "num" /\ q.question_number.n \in Int)
  /\ q.question_text.t = "str"
  /\ StringOrAbsent(q.sub_question_text)
  /\ \A i \in DOMAIN q.responses : ResponseContract(q.responses[i])

DocumentContract(doc) ==
  /\ NonEmptyString(doc.client_name)
  /\ NonEmptyString(doc.created_date)
  /\ \A i \in DOMAIN doc.reports : \A j \in DOMAIN doc.reports[i].questions :
       QuestionContract(doc.reports[i].questions[j])
  /\ \A i \in DOMAIN doc.respondees :
       /\ doc.respondees[i].name.t = "str"
       /\ StringOrAbsent(doc.respondees[i].position)

C9_ValidOrAbsent ==
  IF pc = "returned"
    THEN DocumentContract(result)
    ELSE result = NoDocument

\* A document with two reports, each with a Response, has been returned.
C9_Witness ==
  /\ pc = "returned"
  /\ Len(result.reports) = 2
  /\ \A i \in DOMAIN result.reports :
       /\ Len(result.reports[i].questions) >= 1
       /\ Len(result.reports[i].questions[1].responses) >= 1
  /\ Len(result.respondees) >= 1

\* A workbook with a numeric respondent or comment cell has been rejected by
\* the schema.
C9_WitnessRejected ==
  /\ pc = "threw"
  /\ error = "ZodError"
  /\ result = NoDocument
  /\ Len(reportMap) >= 1

(***************************************************************************)
(* C10.  No returned document holds an optional field with the value ''    *)
(* or null: sub_question_text of a Question, score, response, comment and  *)
(* skip_reason of a Response and position of a Respondee are absent or     *)
(* non-empty.                                                               *)
(***************************************************************************)
AbsentOrNonEmpty(v) == v = Undef \/ (v # Null /\ v # EmptyStr)

QuestionOptionalsOmitted(q) ==
  /\ AbsentOrNonEmpty(q.sub_question_text)
  /\ \A i \in DOMAIN q.responses :
       /\ AbsentOrNonEmpty(q.responses[i].score)
       /\ AbsentOrNonEmpty(q.responses[i].response)
       /\ AbsentOrNonEmpty(q.responses[i].comment)
       /\ AbsentOrNonEmpty(q.responses[i].skip_reason)

\* The part of C10 about Questions and Responses.
ReportOptionalsOmitted ==
  pc = "returned" =>
    \A i \in DOMAIN result.reports : \A j \in DOMAIN result.reports[i].questions :
      QuestionOptionalsOmitted(result.reports[i].questions[j])

\* The part of C10 about Respondees.
RespondeePositionOmitted ==
  pc = "returned" =>
    \A i \in DOMAIN result.respondees :
      AbsentOrNonEmpty(result.respondees[i].position)

C10_NoEmptyOptional == ReportOptionalsOmitted /\ RespondeePositionOmitted

(***************************************************************************)
(* C11.  No Response of a returned document carries both a score and a     *)
(* response, whatever the header row, also when more than one column is    *)
(* mapped to the overloaded score field.                                   *)
(***************************************************************************)
ScoreAndResponse(r) == r.score # Undef /\ r.response # Undef

C11_ScoreXorResponse ==
  pc = "returned" =>
    \A i \in DOMAIN result.reports : \A j \in DOMAIN result.reports[i].questions :
      \A k \in DOMAIN result.reports[i].questions[j].responses :
        ~ScoreAndResponse(result.reports[i].questions[j].responses[k])

(***************************************************************************)
(* C12.  mapHeader(h) is the field of the table entry whose key is         *)
(* normalize(h) when there is one, otherwise the field of the first table  *)
(* key, in insertion order, that normalize(h) contains, otherwise null;    *)
(* mapHeader("Q#1") is question_number; and every call with the same       *)
(* header gives the same result.                                           *)
(***************************************************************************)
\* The result the table alone determines.
TableField(h) ==
  LET norm == normalizeHeader(h)
      exact == {i \in DOMAIN HEADER_MAP : HEADER_MAP[i].k = norm}
      within == {i \in DOMAIN HEADER_MAP : Includes(norm, HEADER_MAP[i].k)}
  IN  IF exact # {}
        THEN Str(HEADER_MAP[CHOOSE i \in exact : TRUE].v)
        ELSE IF within # {}
          THEN Str(HEADER_MAP[CHOOSE i \in within : \A j \in within : i <= j].v)
          ELSE Null

\* The header cell h was mapped as the table says, by the call in the sheet
\* loop (mapped) and by the one in getUnmatchedHeaders.
MappedByTable(h, mapped) ==
  /\ mapHeader(h) = TableField(h)
  /\ mapped = (IF TableField(h) = Null THEN normalizeHeader(h) ELSE TableField(h).s)
  /\ pc = "returned" =>
       (TableField(h) = Null <=>
          \E i \in DOMAIN result.unmatchedHeaders : result.unmatchedHeaders[i] = h)

\* The header rows read so far with data rows below them.
MappedSheets == {i \in DOMAIN sheets : Len(sheets[i].rows) >= 2}

\* The header cells of a sheet that the sheet loop passes to mapHeader.
MappedColumns(i) == {c \in DOMAIN sheets[i].rows[1] : sheets[i].rows[1][c] # Hole}

C12_MapHeaderByTable ==
  /\ mapHeader(H_QNumberOne) = Str(F_question_number)
  /\ \A i \in MappedSheets : \A c \in MappedColumns(i) :
       MappedByTable(sheets[i].rows[1][c], MapHeaders(sheets[i].rows[1])[c])
  /\ pc = "rows" => headers = MapHeaders(Current.rows[1])

\* The same for the headers that spell no inherited property name: this part
\* of C12 holds.
MapHeaderOwnKeys ==
  /\ mapHeader(H_QNumberOne) = Str(F_question_number)
  /\ \A i \in MappedSheets : \A c \in MappedColumns(i) :
       normalizeHeader(sheets[i].rows[1][c]) \notin InheritedNormKeys =>
         MappedByTable(sheets[i].rows[1][c], MapHeaders(sheets[i].rows[1])[c])
  /\ pc = "rows" => headers = MapHeaders(Current.rows[1])

(***************************************************************************)
(* C13.  The unmatched-headers list of a returned document holds exactly   *)
(* the header cells of the data sheets for which mapHeader returns null,   *)
(* each once; it is attached only when it is not empty; and a workbook is  *)
(* never rejected because of an unmatched header.                          *)
(***************************************************************************)
\* The header cells of the data sheets, and those for which mapHeader returns
\* null.
HeaderCellsRead ==
  UNION { {Cell(sheets[i].rows[1], c) : c \in DOMAIN sheets[i].rows[1]} :
            i \in {j \in DOMAIN sheets : Len(sheets[j].rows) >= 1} }

NullMappedCells == {h \in HeaderCellsRead : mapHeader(h) = Null}

C13_UnmatchedHeaders ==
  /\ pc = "returned" =>
       /\ Range(result.unmatchedHeaders) = NullMappedCells
       /\ Len(result.unmatchedHeaders) = Cardinality(NullMappedCells)
       /\ result.hasUnmatchedHeaders <=> NullMappedCells # {}
  /\ pc = "threw" => sheets = <<>>
  /\ (pc = "sheets" /\ Len(sheets) + 1 = sheetCount) => SpreadsheetSchema(Document)

\* Two data sheets, the first with the header "Score" and no data row, the
\* second with the header "Notes" and a data row: both headers are listed.
C13_Witness ==
  /\ pc = "returned"
  /\ Len(sheets) = 2
  /\ sheets[1].rows = <<HeaderLayout(H_Score).header>>
  /\ Len(sheets[2].rows) >= 2
  /\ sheets[2].rows[1] = HeaderLayout(H_Notes).header
  /\ result.hasUnmatchedHeaders
  /\ result.unmatchedHeaders = <<H_Score, H_Notes>>

\* Every header of the workbook is matched: no list is attached.
C13_WitnessNoList ==
  /\ pc = "returned"
  /\ Len(sheets) = 2
  /\ \A i \in DOMAIN sheets : Len(sheets[i].rows) >= 1
  /\ ~result.hasUnmatchedHeaders

(***************************************************************************)
(* C14.  compileCompaniesSummary returns one entry per distinct non-empty  *)
(* client_name; its respondents are the respondee names of that client's   *)
(* documents, without duplicates, as a sorted sequence; its years are the  *)
(* first 4 characters of their created_date, without duplicates, as a      *)
(* sorted sequence; documents with an empty client_name contribute         *)
(* nothing.                                                                 *)
(***************************************************************************)
\* The documents of the argument that belong to a client.
DocumentsOf(name) ==
  {i \in DOMAIN spreadsheets : spreadsheets[i].client_name = name}

ClientNames ==
  {spreadsheets[i].client_name : i \in DOMAIN spreadsheets} \ {EmptyStr}

RespondeeNamesOf(name) ==
  UNION { {spreadsheets[i].respondees[j].name :
             j \in DOMAIN spreadsheets[i].respondees} : i \in DocumentsOf(name) }

YearsOf(name) == {YearOf(spreadsheets[i].created_date) : i \in DocumentsOf(name)}

\* The sequence lists the set without duplicates.
Lists(seq, set) == Range(seq) = set /\ Len(seq) = Cardinality(set)

\* The sequence of strings is in ascending order.
Ascending(seq) ==
  \A i \in DOMAIN seq : \A j \in DOMAIN seq :
    i < j => ~StringLess(seq[j].s, seq[i].s)

\* The call returns.
CompaniesReturned == pc # "threw"

\* One entry per client, with its respondents and its years as sets, the
\* years in order.
CompaniesGrouped ==
  pc = "compiled" =>
    /\ Lists([i \in DOMAIN summary |-> summary[i].name], ClientNames)
    /\ \A i \in DOMAIN summary :
         /\ Lists(summary[i].respondents, RespondeeNamesOf(summary[i].name))
         /\ Lists(summary[i].years, YearsOf(summary[i].name))
         /\ Ascending(summary[i].years)

\* The respondents of every entry are in order.
RespondentsSorted ==
  pc = "compiled" => \A i \in DOMAIN summary : Ascending(summary[i].respondents)

C14_CompaniesSummary == CompaniesGrouped /\ RespondentsSorted /\ CompaniesReturned

(***************************************************************************)
(* C15.  compileQuestionsSummary returns one entry per distinct non-empty  *)
(* question_text of any report of any document; its years are the sorted   *)
(* set of the years of the documents with that question; it has one        *)
(* subquestion entry per distinct non-empty sub_question_text seen with    *)
(* the question, whose years are the sorted set of the years of the        *)
(* documents with that pair, a subset of the question's years.             *)
(***************************************************************************)
\* Every question of every report of the argument, with its document's year.
Occurrences ==
  UNION { UNION { { [ year |-> YearOf(spreadsheets[i].created_date),
                      text |-> spreadsheets[i].reports[j].questions[k].question_text,
                      subText |->
                        spreadsheets[i].reports[j].questions[k].sub_question_text ] :
                    k \in DOMAIN spreadsheets[i].reports[j].questions } :
                  j \in DOMAIN spreadsheets[i].reports } :
          i \in DOMAIN spreadsheets }

QuestionTexts == {o.text : o \in Occurrences} \ {EmptyStr}

YearsOfQuestion(text) == {o.year : o \in {x \in Occurrences : x.text = text}}

SubTextsOf(text) ==
  {o.subText : o \in {x \in Occurrences : x.text = text}} \ {Undef, EmptyStr}

YearsOfPair(text, subText) ==
  {o.year : o \in {x \in Occurrences : x.text = text /\ x.subText = subText}}

\* The call returns.
QuestionsReturned == pc # "threw"

\* What a returned summary holds.
QuestionsGrouped ==
  pc = "compiled" =>
    /\ Lists([i \in DOMAIN summary |-> summary[i].question], QuestionTexts)
    /\ \A i \in DOMAIN summary :
         LET e == summary[i]
         IN  /\ Lists(e.years, YearsOfQuestion(e.question))
             /\ Ascending(e.years)
             /\ Lists([j \in DOMAIN e.subquestions |-> e.subquestions[j].subquestion],
                      SubTextsOf(e.question))
             /\ \A j \in DOMAIN e.subquestions :
                  /\ Lists(e.subquestions[j].years,
                           YearsOfPair(e.question, e.subquestions[j].subquestion))
                  /\ Ascending(e.subquestions[j].years)
                  /\ Range(e.subquestions[j].years) \subseteq Range(e.years)

C15_QuestionsSummary == QuestionsGrouped /\ QuestionsReturned

(***************************************************************************)
(* C16.  parseSpreadsheetBuffer, compileCompaniesSummary and               *)
(* compileQuestionsSummary keep no state between calls and do not modify   *)
(* their inputs: in any sequence of calls, in any order, two calls with    *)
(* the same input return the same output.                                  *)
(***************************************************************************)
SameOutput(a, b) ==
  /\ a.threw = b.threw
  /\ a.error = b.error
  /\ a.value = b.value

SameCall(a, b) == a.done /\ b.done /\ a.fn = b.fn /\ a.input = b.input

C16_SameInputSameOutput ==
  /\ \A i \in DOMAIN calls : \A j \in DOMAIN calls :
       SameCall(calls[i], calls[j]) => SameOutput(calls[i].output, calls[j].output)
  /\ pc \in {"compile", "compiled"} => spreadsheets = CurrentCall.input

\* A workbook parsed, another workbook parsed, the first parsed again with the
\* result of the first call.
C16_Witness ==
  /\ Len(calls) = 3
  /\ \A i \in 1..3 : calls[i].done /\ calls[i].fn = "parseSpreadsheetBuffer"
  /\ ~calls[1].output.threw
  /\ ~calls[2].output.threw
  /\ calls[1].input = calls[3].input
  /\ calls[1].input # calls[2].input
  /\ calls[1].output.value.respondees # calls[2].output.value.respondees
  /\ calls[3].output = calls[1].output

\* A compile call between two equal calls of the other compile function.
C16_WitnessCompile ==
  /\ Len(calls) = 3
  /\ \A i \in 1..3 : calls[i].done
  /\ calls[1].fn = "compileCompaniesSummary"
  /\ calls[2].fn = "compileQuestionsSummary"
  /\ calls[3].fn = "compileCompaniesSummary"
  /\ calls[1].input = calls[3].input
  /\ calls[3].output = calls[1].output

(***************************************************************************)
(* C17.  In the batch loop of prepare.js, whatever subset of the input     *)
(* files fails to parse, every file that parses has its JSON written to    *)
(* the output directory, no JSON is written for a failing file, and a      *)
(* failure never stops the loop before the later files are processed.      *)
(* This does not hold: a file that parses and whose writeFileSync throws   *)
(* has no JSON written.  What holds is the statement for the files that    *)
(* parse and whose write does not throw: each of them, and no other file,  *)
(* is written, in order, into the output directory under its own base      *)
(* name, and neither a failure to parse nor a failure to write stops the   *)
(* loop before the later files are processed.                              *)
(***************************************************************************)
\* processLocalExcelFile returns a document for the input path.
Parses(file) == file.kind = "file" /\ ~file.outcome.threw

\* The input paths among the first n that parse, in order.
ParsingUpTo(n) ==
  SelectSeq([i \in 1..n |-> i], LAMBDA i : Parses(filePaths[i]))

\* The input paths among the first n that parse and whose output the file
\* system lets be written, in order.
ParsedUpTo(n) ==
  SelectSeq([i \in 1..n |-> i],
            LAMBDA i : Parses(filePaths[i]) /\ ~filePaths[i].writeFails)

\* The segments of a path that name something: the empty ones and "." do not.
NamedSegments(p) ==
  SelectSeq(PathSegments(p), LAMBDA s : s # <<>> /\ s # <<".">>)

\* The name of the file at a path without its extension: up to the last "."
\* that is not its first character.
Stem(p) ==
  LET name == NamedSegments(p)[Len(NamedSegments(p))]
      dots == {i \in 2..Len(name) : name[i] = "."}
  IN  IF dots = {}
        THEN name
        ELSE SubSeq(name, 1, (CHOOSE i \in dots : \A j \in dots : j <= i) - 1)

\* The write w put the JSON of the input file directly into the output
\* directory, under the name of the input file with the extension .json.
WrittenFor(w, file) ==
  /\ NamedSegments(w.path) =
       Append(NamedSegments(outDir), Stem(file.path) \o <<".", "j", "s", "o", "n">>)
  /\ w.data = Stringify(FilterDocument(file.outcome.value, questionNumber))

\* The loop does not end before the last path.
LoopGoesOn ==
  /\ fileIndex <= Len(filePaths)
  /\ pc = "done" => fileIndex = Len(filePaths)

\* The statement as given: one write for every file that parses.
C17_EveryParsedWritten ==
  /\ LoopGoesOn
  /\ Len(written) = Len(ParsingUpTo(fileIndex))
  /\ \A k \in DOMAIN written :
       WrittenFor(written[k], filePaths[ParsingUpTo(fileIndex)[k]])

\* A file that parses and whose write throws: nothing is written.
C17_WitnessWriteThrows ==
  /\ pc = "done"
  /\ Len(filePaths) = 1
  /\ Parses(filePaths[1])
  /\ filePaths[1].writeFails
  /\ written = <<>>

\* C17 as it holds: one write for every file that parses and whose write
\* does not throw, none for any other file, and the loop goes on after
\* every failure.
C17_FailureIsolated ==
  /\ LoopGoesOn
  /\ Len(written) = Len(ParsedUpTo(fileIndex))
  /\ \A k \in DOMAIN written :
       WrittenFor(written[k], filePaths[ParsedUpTo(fileIndex)[k]])

\* A file that fails to parse, then a file that parses and is written into
\* the directory --outdir ./a names.
C17_Witness ==
  /\ pc = "done"
  /\ Len(filePaths) = 2
  /\ filePaths[1].kind = "file"
  /\ filePaths[1].outcome.threw
  /\ Parses(filePaths[2])
  /\ ~filePaths[2].writeFails
  /\ outDir = <<".", "/", "a">>
  /\ Len(written) = 1
  /\ written[1].path = <<"a", "/", "y", ".", "j", "s", "o", "n">>

\* A file whose write throws, then a file that is written.
C17_WitnessAfterWriteThrows ==
  /\ pc = "done"
  /\ Len(filePaths) = 2
  /\ Parses(filePaths[1])
  /\ filePaths[1].writeFails
  /\ Parses(filePaths[2])
  /\ ~filePaths[2].writeFails
  /\ Len(written) = 1
  /\ error = "Error writing"

(***************************************************************************)
(* C18.  With a question filter N the document prepare.js writes has only  *)
(* Questions with question_number = N and no report without Questions,     *)
(* keeps the remaining reports and Questions in their original order, and  *)
(* leaves client_name, created_date and respondees unchanged; without a    *)
(* filter the document is written as parsed.                               *)
(***************************************************************************)
\* The member of a written object.
JsonGet(object, key) == object[CHOOSE i \in DOMAIN object : object[i].k = key].v

\* The document parsed for the k-th write.
ParsedFor(k) == filePaths[ParsedUpTo(fileIndex)[k]].outcome.value

\* The reports with a question of that number, each with those questions, in
\* the order of the parsed document.
Selected(reports, n) ==
  LET kept == SelectSeq(reports,
                        LAMBDA r : \E j \in DOMAIN r.questions :
                                     r.questions[j].question_number = n)
  IN  [i \in DOMAIN kept |->
         [ report_name |-> kept[i].report_name,
           questions |-> SelectSeq(kept[i].questions,
                                   LAMBDA q : q.question_number = n) ]]

C18_QuestionFilter ==
  \A k \in DOMAIN written :
    LET w == written[k].data
        d == ParsedFor(k)
        reports == JsonGet(w, "reports")
    IN  /\ JsonGet(w, "client_name") = d.client_name
        /\ JsonGet(w, "created_date") = d.created_date
        /\ JsonGet(w, "respondees") =
             [i \in DOMAIN d.respondees |-> StringifyRespondee(d.respondees[i])]
        /\ questionNumber = Null => w = Stringify(d)
        /\ questionNumber # Null =>
             /\ \A i \in DOMAIN reports :
                  /\ JsonGet(reports[i], "questions") # <<>>
                  /\ \A j \in DOMAIN JsonGet(reports[i], "questions") :
                       JsonGet(JsonGet(reports[i], "questions")[j], "question_number")
                         = questionNumber
             /\ reports = [i \in DOMAIN Selected(d.reports, questionNumber) |->
                             StringifyReport(Selected(d.reports, questionNumber)[i])]

\* Filter 1 on a document of two reports: the second report is dropped, the
\* first keeps its two Questions numbered 1 out of three.
C18_Witness ==
  /\ questionNumber = Num(1)
  /\ Len(written) >= 1
  /\ Len(ParsedFor(1).reports) = 2
  /\ Len(ParsedFor(1).reports[1].questions) = 3
  /\ Len(JsonGet(written[1].data, "reports")) = 1
  /\ Len(JsonGet(JsonGet(written[1].data, "reports")[1], "questions")) = 2

\* No filter: the document of two reports is written with both.
C18_WitnessUnfiltered ==
  /\ questionNumber = Null
  /\ Len(written) >= 1
  /\ Len(ParsedFor(1).reports) = 2
  /\ Len(JsonGet(written[1].data, "reports")) = 2

(***************************************************************************)
(* C19.  The document returned for a workbook has exactly one Report per   *)
(* data sheet, the i-th Report holding the contents of the i-th data       *)
(* sheet: no data sheet's report is missing, merged with, or replaced by   *)
(* another sheet's report.                                                 *)
(***************************************************************************)
\* The data sheets with at least one data row.
SheetsWithRows == {i \in DOMAIN sheets : Len(sheets[i].rows) >= 2}

\* No two data sheets with data rows have the same report name.
DistinctReportNames ==
  \A i \in SheetsWithRows : \A j \in SheetsWithRows :
    ReportName(sheets[i].name) = ReportName(sheets[j].name) => i = j

C19_ReportPerSheet ==
  pc = "returned" =>
    /\ Len(result.reports) = sheetCount - 1
    /\ \A i \in DOMAIN result.reports :
         result.reports[i] = SheetReport(sheets[i].name, sheets[i].outs)

\* One Report per data sheet with data rows, in order, when those sheets have
\* distinct report names.
ReportPerSheetWithRows ==
  (pc = "returned" /\ DistinctReportNames) =>
    /\ Len(result.reports) = Cardinality(SheetsWithRows)
    /\ \A i \in SheetsWithRows :
         result.reports[Cardinality({j \in SheetsWithRows : j <= i})] =
           SheetReport(sheets[i].name, sheets[i].outs)

\* One Report per data sheet when every data sheet has data rows.
ReportPerSheetAllRows ==
  (pc = "returned" /\ SheetsWithRows = DOMAIN sheets) =>
    Len(result.reports) = sheetCount - 1

(***************************************************************************)
(* C20.  The question number of a row is resolved after all its columns    *)
(* are scanned: a new-question boundary row takes the number parsed from   *)
(* its own cell or else null; another row with a number of its own takes   *)
(* that number; any other row inherits lastQuestionNumber.  In the first   *)
(* two cases the value becomes lastQuestionNumber, so the rows after a     *)
(* boundary row without a number get null, never the previous question's   *)
(* number.                                                                  *)
(***************************************************************************)
\* The number a number cell of the model's sheets denotes; Null for a cell
\* that is empty or not numeric.
NumberOfCell(cell) ==
  CASE cell = V_One -> Num(1)
    [] cell = V_Four -> Num(4)
    [] OTHER -> Null

\* lastQuestionNumber as the i-th data row of the sheet finds it.
NumberBefore(sh, i) ==
  IF i = 1 THEN Null ELSE sh.outs[i - 1].lastQuestionNumber

C20_NumberResolution ==
  pc = "rows" =>
    LET h == Hdrs(Current)
    IN  \A i \in DOMAIN Current.outs :
          LET own == NumberOfCell(LastCell(h, DataRow(Current, i), F_question_number))
              out == Current.outs[i]
          IN  /\ (IsBoundary(h, Current, i) \/ own # Null) =>
                   /\ out.question_number = own
                   /\ out.lastQuestionNumber = own
              /\ (~IsBoundary(h, Current, i) /\ own = Null) =>
                   /\ out.question_number = NumberBefore(Current, i)
                   /\ out.lastQuestionNumber = NumberBefore(Current, i)
              /\ i = Len(Current.outs) => lastQuestionNumber = out.lastQuestionNumber

\* Question 1 "A", then the boundary row of question "B" without a number,
\* then a row of B's block: the second and third rows have the number null.
C20_Witness ==
  /\ pc = "rows"
  /\ Len(Current.outs) = 3
  /\ Hdrs(Current) = <<F_question_number, F_question_text, F_respondent>>
  /\ Current.outs[1].question_number = Num(1)
  /\ Current.outs[1].question_text = V_A
  /\ IsBoundaryRow(Current, 2)
  /\ LastCell(Hdrs(Current), DataRow(Current, 2), F_question_number) = Undef
  /\ FieldBlank(Hdrs(Current), DataRow(Current, 3), F_question_text)
  /\ LastCell(Hdrs(Current), DataRow(Current, 3), F_question_number) = Undef
  /\ Current.outs[2].question_number = Null
  /\ Current.outs[3].question_number = Null

\* The number column after the text column: a boundary row with the number 4
\* in the later column takes it.
C20_WitnessNumberLast ==
  /\ pc = "rows"
  /\ Len(Current.outs) = 2
  /\ Hdrs(Current) = <<F_question_text, F_question_number, F_respondent>>
  /\ Current.outs[1].question_number = Num(1)
  /\ IsBoundaryRow(Current, 2)
  /\ Current.outs[2].question_number = Num(4)
  /\ lastQuestionNumber = Num(4)

(***************************************************************************)
(* C29.  In the batch loop of prepare.js the progress counter is           *)
(* incremented exactly once per input path, whether the path is parsed,    *)
(* fails, or is a directory, so after the loop the counter equals the      *)
(* number of input paths.                                                  *)
(***************************************************************************)
C29_ProgressOncePerPath ==
  /\ progress = fileIndex
  /\ pc = "done" => progress = Len(filePaths)

\* The input paths processed so far that are directories.
DirectoriesUpTo(n) == {i \in 1..n : filePaths[i].kind = "directory"}

\* The counter is the number of paths processed plus the number of
\* directories among them.
ProgressCountsDirectoriesTwice ==
  progress = fileIndex + Cardinality(DirectoriesUpTo(fileIndex))

(***************************************************************************)
(* C21.  A non-boundary row with a non-empty sub-question cell takes that  *)
(* value as its sub-question and stores it in lastSubQuestionText; every   *)
(* later row of the sheet with an empty sub-question cell inherits it,     *)
(* until the next row with a non-empty sub-question cell or the next       *)
(* new-question boundary.                                                  *)
(***************************************************************************)
\* The sub-question cell of the i-th data row.
SubCell(h, sh, i) == LastCell(h, DataRow(sh, i), F_sub_question_text)

C21_SubQuestionCarried ==
  pc = "rows" =>
    LET h == Hdrs(Current)
        n == Len(Current.outs)
        boundary == [i \in 1..n |-> IsBoundary(h, Current, i)]
        cell == [i \in 1..n |-> SubCell(h, Current, i)]
    IN  \A s \in 1..n : \A j \in s..n :
          ( /\ ~boundary[s]
            /\ Truthy(cell[s])
            /\ \A i \in (s + 1)..j : ~boundary[i] /\ ~Truthy(cell[i]) )
          => /\ Current.outs[j].sub_question_text = cell[s]
             /\ Current.outs[j].lastSubQuestionText = cell[s]
             /\ j = n => lastSubQuestionText = cell[s]

\* Question A with sub-question "s", then a row of A's block with the
\* sub-question cell "K", then a row with both cells empty, which inherits K.
C21_Witness ==
  /\ pc = "rows"
  /\ Len(Current.outs) = 3
  /\ Hdrs(Current) = <<F_respondent, F_question_text, F_sub_question_text>>
  /\ IsBoundaryRow(Current, 1)
  /\ Current.outs[1].sub_question_text = V_Sub
  /\ ~IsBoundaryRow(Current, 2)
  /\ SubCell(Hdrs(Current), Current, 2) = V_K
  /\ ~IsBoundaryRow(Current, 3)
  /\ SubCell(Hdrs(Current), Current, 3) = Undef
  /\ Current.outs[3].sub_question_text = V_K

\* The same with the sub-question column before the question text column,
\* the second row repeating the question text A.
C21_WitnessSubFirst ==
  /\ pc = "rows"
  /\ Len(Current.outs) = 3
  /\ Hdrs(Current) = <<F_respondent, F_sub_question_text, F_question_text>>
  /\ IsBoundaryRow(Current, 1)
  /\ LastCell(Hdrs(Current), DataRow(Current, 2), F_question_text) = V_A
  /\ ~IsBoundaryRow(Current, 2)
  /\ SubCell(Hdrs(Current), Current, 2) = V_K
  /\ SubCell(Hdrs(Current), Current, 3) = Undef
  /\ ~IsBoundaryRow(Current, 3)
  /\ Current.outs[3].sub_question_text = V_K

(***************************************************************************)
(* C22.  Carry-forward state is per data sheet: at the start of every data *)
(* sheet lastQuestionNumber is null and lastQuestionText and               *)
(* lastSubQuestionText are empty, so the Questions produced for a sheet    *)
(* depend only on that sheet's own header and rows and never on the rows   *)
(* of an earlier sheet.                                                    *)
(***************************************************************************)
\* The first n data rows of the two sheets, and their header rows, are equal.
SameRows(a, b, n) ==
  /\ Len(a.rows) >= n + 1
  /\ Len(b.rows) >= n + 1
  /\ SubSeq(a.rows, 1, n + 1) = SubSeq(b.rows, 1, n + 1)

\* The Questions of a sheet, from the locals its rows ended with.
QuestionsOf(sh) == MapValues(SheetQuestionMap(sh.outs))

C22_CarryPerSheet ==
  /\ (pc = "rows" /\ Current.outs = <<>>) =>
       /\ lastQuestionNumber = Null
       /\ lastQuestionText = EmptyStr
       /\ lastSubQuestionText = EmptyStr
       /\ questionMap = <<>>
  /\ pc = "rows" => MapValues(questionMap) = QuestionsOf(Current)
  /\ \A i \in DOMAIN sheets : \A j \in DOMAIN sheets :
       \A n \in DOMAIN sheets[i].outs :
         SameRows(sheets[i], sheets[j], n) =>
           /\ sheets[i].outs[n].question_number = sheets[j].outs[n].question_number
           /\ sheets[i].outs[n].question_text = sheets[j].outs[n].question_text
           /\ sheets[i].outs[n].sub_question_text = sheets[j].outs[n].sub_question_text
  /\ pc = "returned" =>
       \A i \in DOMAIN sheets : \A j \in DOMAIN sheets :
         (sheets[i].rows = sheets[j].rows /\ Len(sheets[i].rows) >= 2) =>
           \E a \in DOMAIN result.reports : \E b \in DOMAIN result.reports :
             /\ result.reports[a].report_name = ReportName(sheets[i].name)
             /\ result.reports[b].report_name = ReportName(sheets[j].name)
             /\ result.reports[a].questions = result.reports[b].questions

\* A data sheet with an empty row, then question 1 "A" with sub-question "s",
\* and a second data sheet with the same empty row: it starts from nothing, as
\* the first row of the first sheet did.
C22_Witness ==
  /\ pc = "returned"
  /\ Len(sheets) = 2
  /\ Len(sheets[1].outs) = 2
  /\ Len(sheets[2].outs) = 1
  /\ SameRows(sheets[1], sheets[2], 1)
  /\ sheets[1].outs[2].lastQuestionNumber = Num(1)
  /\ sheets[1].outs[2].lastQuestionText = V_A
  /\ sheets[1].outs[2].lastSubQuestionText = V_Sub
  /\ sheets[2].outs[1].question_number = Null
  /\ sheets[2].outs[1].question_text = EmptyStr
  /\ sheets[2].outs[1].sub_question_text = EmptyStr
  /\ Len(result.reports) = 2
  /\ result.reports[2].questions[1].question_number = Null
  /\ result.reports[2].questions[1].question_text = EmptyStr

(***************************************************************************)
(* C25.  Given the same decoded workbook (same sheets, header rows and     *)
(* data rows), the XLSX-based parseSpreadsheetBuffer and the ExcelJS-based *)
(* parseSpreadsheetBuffer of src/unnamed/part_001 return the same          *)
(* Document, or both fail.                                                 *)
(***************************************************************************)
C25_SameDocument ==
  /\ pc = "threw" => ExcelThrows
  /\ pc = "returned" => ~ExcelThrows /\ ExcelDocument = result

\* No two accepted rows of a sheet have the same key.
OneRowPerKey ==
  \A s \in DOMAIN sheets :
    \A i \in DOMAIN sheets[s].outs : \A j \in DOMAIN sheets[s].outs :
      ( /\ IsAccepted(sheets[s].outs[i].respondent)
        /\ IsAccepted(sheets[s].outs[j].respondent)
        /\ qKey(sheets[s].outs[i]) = qKey(sheets[s].outs[j]) ) => i = j

\* The two versions return the same document when every details row has two
\* cells, every header cell is non-empty, every data sheet has data rows and
\* no key occurs in two accepted rows of a sheet.
SameDocumentOneRowPerKey ==
  ( /\ pc = "returned"
    /\ OneRowPerKey
    /\ \A i \in DOMAIN detailsRows : Len(detailsRows[i]) >= 2
    /\ \A s \in DOMAIN sheets :
         /\ Len(sheets[s].rows) >= 2
         /\ \A c \in DOMAIN sheets[s].rows[1] : Truthy(sheets[s].rows[1][c]) )
    => ~ExcelThrows /\ ExcelDocument = result

(***************************************************************************)
(* C23.  Every Response of a returned document sits under a Question whose *)
(* (question_number, question_text, sub_question_text) is the triple       *)
(* resolved for the row that produced the Response, and no report holds    *)
(* two Questions with the same triple, also when the texts contain '|'.    *)
(* Stated of both copies of parseSpreadsheetBuffer.                        *)
(***************************************************************************)
Triple(q) == <<q.question_number, q.question_text, q.sub_question_text>>

\* The Response of row i is in the questionMap of the XLSX version: no later
\* accepted row has set its key again.
ResponseKept(outs, i) ==
  /\ IsAccepted(outs[i].respondent)
  /\ \A j \in DOMAIN outs :
       (j > i /\ IsAccepted(outs[j].respondent)) => qKey(outs[j]) # qKey(outs[i])

\* The Question under which the Response of row i was pushed has the triple of
\* row i, for the rows in `kept`; the Questions of `map` have distinct triples.
KeyedByTriple(map, outs, kept) ==
  /\ \A i \in kept :
       Triple(MapGet(map, qKey(outs[i]))) = Triple(QuestionObj(outs[i]))
  /\ \A a \in DOMAIN map : \A b \in DOMAIN map :
       Triple(map[a].v) = Triple(map[b].v) => a = b

QuestionsKeyedByTriple ==
  pc = "rows" =>
    KeyedByTriple(questionMap, Current.outs,
                  {i \in DOMAIN Current.outs : ResponseKept(Current.outs, i)})

ExcelQuestionsKeyedByTriple ==
  pc = "rows" =>
    KeyedByTriple(ExcelQuestionMap(Current.outs), Current.outs,
                  {i \in DOMAIN Current.outs : IsAccepted(Current.outs[i].respondent)})

C23_ResponsesUnderOwnTriple ==
  QuestionsKeyedByTriple /\ ExcelQuestionsKeyedByTriple

\* Two accepted rows with different triples and the same key.
PipeCollision ==
  /\ pc = "rows"
  /\ \E i \in DOMAIN Current.outs : \E j \in DOMAIN Current.outs :
       /\ IsAccepted(Current.outs[i].respondent)
       /\ IsAccepted(Current.outs[j].respondent)
       /\ qKey(Current.outs[i]) = qKey(Current.outs[j])
       /\ Triple(QuestionObj(Current.outs[i])) # Triple(QuestionObj(Current.outs[j]))

(***************************************************************************)
(* C24.  A column mapped to the field response fills the row's free-text   *)
(* response exactly when none has been set for the row by the overloaded   *)
(* score column, and some header string gives such a column.               *)
(***************************************************************************)
\* Header cells: those of the layouts and further spellings of "response".
HeaderStrings ==
  UNION {{L.header[c] : c \in DOMAIN L.header} : L \in Layouts}
    \cup { Str(<<"r","e","s","p","o","n","s","e">>),
           Str(<<"R","E","S","P","O","N","S","E">>),
           Str(<<"R","e","s","p","o","n","s","e"," ">>),
           Str(<<"F","r","e","e"," ","R","e","s","p","o","n","s","e">>),
           Str(<<"R","e","s","p","o","n","s","e"," ","T","e","x","t">>),
           Str(<<"T","e","x","t">>), Undef }

\* headers[c] for the header cell h.
FieldOf(h) == MapHeaders(<<h>>)[1]

\* On the locals of every row read, the statement of line 202 sets response
\* to the cell (or '') when response is '', and leaves it otherwise.
ResponseColumnFillsWhenUnset ==
  \A s \in DOMAIN sheets : \A i \in DOMAIN sheets[s].outs :
    \A value \in {Undef, EmptyStr, V_NA, V_Four} :
      LET st == sheets[s].outs[i]
      IN  ResponseColumn(st, value)
            = IF st.response = EmptyStr
                THEN [st EXCEPT !.response = IF Truthy(value) THEN value ELSE EmptyStr]
                ELSE st

C24_ResponseColumnOccurs ==
  /\ ResponseColumnFillsWhenUnset
  /\ \E h \in HeaderStrings : FieldOf(h) = F_response

\* No header gives the field response: a header that normalizes to "response"
\* is mapped to score by the table, and no column of a sheet read has the
\* field response.
NoResponseField ==
  /\ \A h \in HeaderStrings :
       /\ FieldOf(h) # F_response
       /\ normalizeHeader(h) = F_response => mapHeader(h) = Str(F_score)
  /\ \A c \in DOMAIN headers : headers[c] # F_response

(***************************************************************************)
(* C26.  In a returned document the set of Respondee names is the set of   *)
(* respondent values of the Responses of all reports.                      *)
(***************************************************************************)
RespondeeNames(doc) == {doc.respondees[i].name : i \in DOMAIN doc.respondees}

ResponseRespondents(doc) ==
  UNION { UNION { {q.responses[k].respondent : k \in DOMAIN q.responses}
                  : q \in {r.questions[j] : j \in DOMAIN r.questions} }
          : r \in {doc.reports[i] : i \in DOMAIN doc.reports} }

C26_RespondeesAnswer ==
  pc = "returned" => RespondeeNames(result) = ResponseRespondents(result)

\* Every Response's respondent has a Respondee entry.
RespondentsAreRespondees ==
  pc = "returned" => ResponseRespondents(result) \subseteq RespondeeNames(result)

\* The same of the document the ExcelJS copy assembles; there a Respondee is
\* without Response only when the report of its sheet has been replaced by a
\* later sheet with the same report name.
ExcelRespondeesAnswer ==
  pc = "returned" =>
    /\ ResponseRespondents(ExcelDocument) \subseteq RespondeeNames(ExcelDocument)
    /\ (\A s1 \in DOMAIN sheets : \A s2 \in DOMAIN sheets :
          ReportName(sheets[s1].name) = ReportName(sheets[s2].name) => s1 = s2)
         => RespondeeNames(ExcelDocument) = ResponseRespondents(ExcelDocument)

\* With one accepted row per key and distinct report names the two sets are
\* equal.
RespondeesAnswerOneRowPerKey ==
  ( /\ pc = "returned"
    /\ OneRowPerKey
    /\ \A s1 \in DOMAIN sheets : \A s2 \in DOMAIN sheets :
         ReportName(sheets[s1].name) = ReportName(sheets[s2].name) => s1 = s2 )
    => RespondeeNames(result) = ResponseRespondents(result)

(***************************************************************************)
(* C27.  A column whose header mapHeader maps to null contributes to no    *)
(* field of a Question, Response or Respondee: the workbook read and the   *)
(* workbook that differs from it in the cells of such columns only (they   *)
(* are empty there) give the same questions and respondees.                *)
(***************************************************************************)
UnmatchedColumns(headerRow) ==
  {c \in DOMAIN headerRow : ~Truthy(mapHeader(headerRow[c]))}

\* The row with the cells of the unmatched columns emptied.
BlankedRow(headerRow, row) ==
  [c \in DOMAIN row |-> IF c \in UnmatchedColumns(headerRow) THEN Undef ELSE row[c]]

\* The locals the row loop leaves for the data rows `rows` under `hdrs`.
OutsOfRows(hdrs, rows) ==
  LET f[i \in 0..Len(rows)] ==
        IF i = 0
          THEN <<>>
          ELSE IF i = 1
            THEN <<ParseRow(Null, EmptyStr, EmptyStr, hdrs, rows[1])>>
            ELSE Append(f[i - 1],
                        ParseRow(f[i - 1][i - 1].lastQuestionNumber,
                                 f[i - 1][i - 1].lastQuestionText,
                                 f[i - 1][i - 1].lastSubQuestionText, hdrs, rows[i]))
  IN  f[Len(rows)]

\* The respondees the accepted rows of a sheet add.
SheetRespondees(outs) ==
  LET f[i \in 0..Len(outs)] ==
        IF i = 0
          THEN <<>>
          ELSE IF IsAccepted(outs[i].respondent)
            THEN AddRespondee(f[i - 1], outs[i].respondent, outs[i].position)
            ELSE f[i - 1]
  IN  f[Len(outs)]

\* The sheet gives the same questions and respondees with the cells of its
\* unmatched columns emptied.
SameWithoutUnmatched(sh) ==
  LET hdrs == Hdrs(sh)
      read == OutsOfRows(hdrs, [i \in 1..(Len(sh.rows) - 1) |-> sh.rows[i + 1]])
      blank == OutsOfRows(hdrs, [i \in 1..(Len(sh.rows) - 1) |->
                                   BlankedRow(sh.rows[1], sh.rows[i + 1])])
  IN  /\ read = sh.outs
      /\ SheetQuestionMap(blank) = SheetQuestionMap(read)
      /\ SheetRespondees(blank) = SheetRespondees(read)

C27_UnmatchedColumnsIgnored ==
  \A s \in DOMAIN sheets : Len(sheets[s].rows) >= 1 => SameWithoutUnmatched(sheets[s])

\* The same for the sheets none of whose unmatched headers normalizes to
\* "score", the one field name that no table key matches.
UnmatchedIgnoredUnlessScore ==
  \A s \in DOMAIN sheets :
    ( /\ Len(sheets[s].rows) >= 1
      /\ \A c \in UnmatchedColumns(sheets[s].rows[1]) :
           normalizeHeader(sheets[s].rows[1][c]) # F_score )
      => SameWithoutUnmatched(sheets[s])

\* A sheet with an unmatched column other than "Score" whose cell is not
\* empty has been read.
UnmatchedCellRead ==
  \E s \in DOMAIN sheets :
    /\ Len(sheets[s].rows) >= 2
    /\ \E c \in UnmatchedColumns(sheets[s].rows[1]) :
         /\ normalizeHeader(sheets[s].rows[1][c]) # F_score
         /\ Truthy(Cell(sheets[s].rows[2], c))

(***************************************************************************)
(* C28.  Schema validation rejects no workbook that passes the structural  *)
(* checks: whatever strings or numbers the cells of the data sheets hold,  *)
(* the call returns a Document.                                            *)
(***************************************************************************)
C28_SchemaNeverRejects == error # "ZodError"

\* The fields whose cell is stored as it is read.
RawFields ==
  {F_respondent, F_position, F_sub_question_text, F_comment, F_skip_reason}

\* The client name, the created date and every cell of a column with one of
\* these fields are strings or empty.
RawCellsAreStrings ==
  /\ \A i \in DOMAIN detailsRows : \A c \in DOMAIN detailsRows[i] :
       detailsRows[i][c].t \in {"str", "undef"}
  /\ \A s \in DOMAIN sheets : \A i \in 2..Len(sheets[s].rows) :
       \A c \in DOMAIN sheets[s].rows[i] :
         (c \in DOMAIN sheets[s].rows[1] /\ Hdrs(sheets[s])[c] \in RawFields)
           => sheets[s].rows[i][c].t \in {"str", "undef"}

\* As amended: when the client name, the created date and the cells of the
\* respondent, position, sub-question, comment and skip-reason columns are
\* strings, the schema does not reject, whatever strings or numbers the other
\* cells hold; a call that passed the structural checks returns a Document.
C28_StringCellsNeverRejected ==
  RawCellsAreStrings =>
    /\ error # "ZodError"
    /\ (pc = "threw" => sheetCount < 2 \/ DetailsMissing(client_name, created_date))
    /\ (pc = "returned" => SpreadsheetSchema(result))

\* A workbook with the score cells " " and 0 and string respondents has been
\* returned with two Responses of score 0.
C28_Witness ==
  /\ pc = "returned"
  /\ RawCellsAreStrings
  /\ Len(sheets) = 1
  /\ Len(sheets[1].rows) = 3
  /\ Hdrs(sheets[1]) = <<F_respondent, F_score>>
  /\ sheets[1].rows[2] = <<V_J, V_Blank>>
  /\ sheets[1].rows[3] = <<V_J, Num(0)>>
  /\ sheets[1].outs[1].score = Num(0)
  /\ sheets[1].outs[2].score = Num(0)
  /\ Len(result.reports) = 1

\* A workbook with a number in a comment cell has been rejected.
C28_WitnessRejected ==
  /\ pc = "threw"
  /\ error = "ZodError"
  /\ \E s \in DOMAIN sheets : \E i \in 2..Len(sheets[s].rows) :
       /\ Hdrs(sheets[s])[2] = F_comment
       /\ sheets[s].rows[i][2] = Num(3)

=============================================================================
